---- MODULE Spec2Model ----
(***************************************************************************)
(* Model of the Claket soundboard front end (Pinia store "audio" and the   *)
(* seek handlers of App.vue) together with the playback engine it talks to *)
(* through Tauri commands and events.                                      *)
(*                                                                         *)
(* The store, the listeners and the seek handlers are translated from the  *)
(* TypeScript sources.  The engine (Rust, src-tauri) is not part of the    *)
(* sources at hand and is modelled from the written design: an instance    *)
(* table with process-unique ids, a cursor that advances with wall-clock   *)
(* time while Playing, a telemetry broadcaster that emits snapshots and a  *)
(* "finished" notification on natural completion.                          *)
(*                                                                         *)
(* Time is discrete: one Tick is StepMs milliseconds of wall-clock time.   *)
(* Commands are asynchronous round trips: a handler sends a command        *)
(* (st = "sent"), the engine processes it at some later step (st = "ok" or *)
(* "err") and the handler's continuation runs at a still later step.       *)
(* Events in flight are delivered in any order and with any delay.         *)
(***************************************************************************)
EXTENDS Integers, Sequences, FiniteSets, Bags

\* ---------------------------------------------------------------- bounds
NumButtons == 2
Duration == 200
StepMs == 100
MaxTime == 200
MaxEmits == 2
MaxPlays == 2
MaxStops == 1
MaxStopAlls == 1
MaxGestures == 1
MaxToggles == 1
MaxEdits == 2
MaxFiles == 2
MaxRestarts == 1
MaxPages == 3
ItemsPerPage == 1
InitTotalPages == 2
MaxSide == 5

\* ------------------------------------------------------ program constants
Tolerance == 100

None == 0
NullValue == -1
NoPath == "null"
LibPath == "sounds/a.wav"
LibPath2 == "sounds/b.wav"
LibPaths == {LibPath, LibPath2}
ExtPath == "C:/music/kick.wav"

\* A name is its text and a number that follows it, 0 for none:
\* `Button ${i + 1}` is <<"Button", i + 1>>
NoName == <<"", 0>>
DefaultName(i) == <<"Button", i + 1>>
PageName(i) == <<"Page", i + 1>>
DefaultVolume == 50
FullVolume == 100
DefaultColor == "bg-secondary"
DefaultDevice == "Default"
\* The grid as it is laid out on the screen: 4 columns, itemsPerPage: 16.
\* (The grids of the page specifications are scaled down to ItemsPerPage.)
GridColumns == 4
StoreItemsPerPage == 16
NoDrop == [page |-> -1, col |-> -1, row |-> -1, index |-> -1]
NoDevice == ""

VARIABLES
  now,                  \* Date.now()
  engInst,              \* engine: instance table
  engNextId,            \* engine: next instance id
  chanProgress,         \* "audio-progress" events emitted and not yet delivered
  chanFinished,         \* "audio-finished" events emitted and not yet delivered
  cmds,                 \* invoke() round trips in progress
  buttons,              \* store.buttons
  activeProgresses,     \* store.activeProgresses
  seekingInstanceId,    \* store.seekingInstanceId
  seekRecovery,         \* store.seekRecovery
  localSeekValue,       \* App.vue localSeekValue
  wasPlayingBeforeSeek, \* App.vue wasPlayingBeforeSeek
  pointerDown,          \* the slider that holds the pointer, if any
  lastAct,              \* history: the handler that ran last, "step" for the others
  seekT,                \* history: target of the last completed seek, per instance
  lastAcc,              \* history: last snapshot position accepted since that seek
  removedIds,           \* history: ids deleted from activeProgresses so far
  used,                 \* how often the environment has acted: snapshots emitted,
                        \* plays, stops, stop-alls, gestures, pause clicks,
                        \* edits of settings, file operations and restarts
  settings,             \* store: masterVolume, currentDevice, currentPage,
                        \* totalPages, pageNames, reducedMotion, accentColor,
                        \* titlebarStyle, controlsSide
  disk,                 \* store.bin as last written by saveSettings
  engDevice,            \* engine: the output device in use
  library,              \* library store: the paths save_sound_file has returned
  preloaded,            \* history: the paths preload_sound has been invoked for
  lastDrop              \* history: what the file-dropped listener computed last

engVars == <<engInst, engNextId, chanProgress, chanFinished>>
storeVars == <<buttons, activeProgresses, seekingInstanceId, seekRecovery>>
appVars == <<localSeekValue, wasPlayingBeforeSeek, pointerDown>>
histVars == <<seekT, lastAcc, removedIds>>
cfgVars == <<settings, disk, engDevice, library, preloaded, lastDrop>>
vars == <<now, engVars, cmds, storeVars, appVars, lastAct, histVars, used, cfgVars>>

InstIds == 1..MaxPlays
ButtonIds == 0..(NumButtons - 1)
SeekValues == {v \in 0..Duration : v % StepMs = 0 \/ v = Duration}

\* ------------------------------------------------------------- utilities
Min(a, b) == IF a < b THEN a ELSE b

RECURSIVE IdToString(_)
\* Number.prototype.toString(): the decimal digits of a non-negative integer
IdToString(n) == IF n < 10 THEN <<n>> ELSE IdToString(n \div 10) \o <<n % 10>>

\* Map.delete / Map.set on a function with a finite domain
MapDelete(m, k) == [x \in (DOMAIN m) \ {k} |-> m[x]]
MapSet(m, k, v) == [x \in (DOMAIN m) \cup {k} |-> IF x = k THEN v ELSE m[x]]
EmptyMap == [x \in {} |-> 0]

Use(what) == used' = [used EXCEPT ![what] = @ + 1]

\* ------------------------------------------------- command round trips
\* One invoke(): the command, its arguments, the state of the round trip,
\* the engine's answer and what the suspended caller still holds.
\*   key        the id argument of play_sound (buttonId.toString())
\*   btn        playSound's local button: the index of the object in buttons
\*   caller     which handler awaits togglePauseInstance ("ui", "seekStart",
\*              "seekEnd")
\*   wasPlaying handleSeekEnd's local wasPlaying
\*   item       handleSeekEnd's local item: "live" while the object is still
\*              the map's entry, "deadPaused"/"deadPlaying" once the entry was
\*              deleted (the object keeps its last is_paused), "none" if
\*              undefined
\*   id         the button a file operation is for (props.id)
\*   path       the path argument of save_sound_file / delete_sound_file
\*   name       updateButtonWithCopy's originalName
\*   dev, vol   the arguments of set_audio_device / update_master_volume
\*   retPath    the path save_sound_file returns
NewCmd(op) ==
  [op |-> op, st |-> "sent", inst |-> None, key |-> <<>>, btn |-> 0, pos |-> 0,
   caller |-> "ui", wasPlaying |-> FALSE, item |-> "none",
   retId |-> None, retPaused |-> FALSE,
   id |-> 0, path |-> NoPath, name |-> NoName, dev |-> NoDevice, vol |-> 0,
   retPath |-> NoPath]

Pending == BagToSet(cmds)
Send(bag, c) == bag (+) SetToBag({c})
Drop(bag, c) == bag (-) SetToBag({c})
Answer(bag, c, d) == Send(Drop(bag, c), d)

RECURSIVE BagSum(_, _)
BagSum(bag, X) == IF X = {} THEN 0
                  ELSE LET x == CHOOSE y \in X : TRUE
                       IN  bag[x] + BagSum(bag, X \ {x})

\* The object held by a suspended handleSeekEnd stops being the map's entry
\* when the entry is deleted.
DetachItem(c, gone, ap) ==
  IF c.op = "seek_instance" /\ c.item = "live" /\ c.inst \in gone
  THEN [c EXCEPT !.item = IF ap[c.inst].is_paused THEN "deadPaused" ELSE "deadPlaying"]
  ELSE c

DetachItems(bag, gone, ap) ==
  LET S == BagToSet(bag)
  IN  [d \in {DetachItem(c, gone, ap) : c \in S} |->
         BagSum(bag, {c \in S : DetachItem(c, gone, ap) = d})]

\* ------------------------------------------------------------- engine
\* play: allocates a fresh id, state Playing, cursor 0
EnginePlay(c) ==
  /\ c \in Pending /\ c.op = "play_sound" /\ c.st = "sent"
  /\ engInst' = MapSet(engInst, engNextId,
                       [key |-> c.key, cursor |-> 0, paused |-> FALSE, volume |-> c.vol,
                        name |-> c.name])
  /\ engNextId' = engNextId + 1
  /\ cmds' = Answer(cmds, c, [c EXCEPT !.st = "ok", !.retId = engNextId])
  /\ UNCHANGED cfgVars
  /\ lastAct' = "step"
  /\ UNCHANGED used
  /\ UNCHANGED <<now, chanProgress, chanFinished, storeVars, appVars, histVars>>

\* toggle_pause: flips Playing/Paused and returns the resulting flag
EngineTogglePause(c) ==
  /\ c \in Pending /\ c.op = "toggle_pause_instance" /\ c.st = "sent"
  /\ IF c.inst \in DOMAIN engInst
     THEN /\ engInst' = [engInst EXCEPT ![c.inst].paused = ~@]
          /\ cmds' = Answer(cmds, c, [c EXCEPT !.st = "ok",
                                               !.retPaused = ~engInst[c.inst].paused])
     ELSE /\ cmds' = Answer(cmds, c, [c EXCEPT !.st = "err"])
          /\ UNCHANGED engInst
  /\ UNCHANGED cfgVars
  /\ lastAct' = "step"
  /\ UNCHANGED used
  /\ UNCHANGED <<now, engNextId, chanProgress, chanFinished, storeVars, appVars, histVars>>

\* stop: removes the instance; no "finished" event
EngineStop(c) ==
  /\ c \in Pending /\ c.op = "stop_instance" /\ c.st = "sent"
  /\ IF c.inst \in DOMAIN engInst
     THEN /\ engInst' = MapDelete(engInst, c.inst)
          /\ cmds' = Answer(cmds, c, [c EXCEPT !.st = "ok"])
     ELSE /\ cmds' = Answer(cmds, c, [c EXCEPT !.st = "err"])
          /\ UNCHANGED engInst
  /\ UNCHANGED cfgVars
  /\ lastAct' = "step"
  /\ UNCHANGED used
  /\ UNCHANGED <<now, engNextId, chanProgress, chanFinished, storeVars, appVars, histVars>>

\* stop_all: removes every instance, also when there is none
EngineStopAll(c) ==
  /\ c \in Pending /\ c.op = "stop_all" /\ c.st = "sent"
  /\ engInst' = EmptyMap
  /\ cmds' = Answer(cmds, c, [c EXCEPT !.st = "ok"])
  /\ UNCHANGED cfgVars
  /\ lastAct' = "step"
  /\ UNCHANGED used
  /\ UNCHANGED <<now, engNextId, chanProgress, chanFinished, storeVars, appVars, histVars>>

\* seek: clamps the position to [0, duration] and moves the cursor
EngineSeek(c) ==
  /\ c \in Pending /\ c.op = "seek_instance" /\ c.st = "sent"
  /\ IF c.inst \in DOMAIN engInst
     THEN /\ engInst' = [engInst EXCEPT ![c.inst].cursor =
                            IF c.pos < 0 THEN 0 ELSE Min(c.pos, Duration)]
          /\ cmds' = Answer(cmds, c, [c EXCEPT !.st = "ok"])
     ELSE /\ cmds' = Answer(cmds, c, [c EXCEPT !.st = "err"])
          /\ UNCHANGED engInst
  /\ UNCHANGED cfgVars
  /\ lastAct' = "step"
  /\ UNCHANGED used
  /\ UNCHANGED <<now, engNextId, chanProgress, chanFinished, storeVars, appVars, histVars>>

\* A command that is rejected without the engine acting: DecodeError or
\* DeviceError for play, StateError for seek, a failed call for stop_all.
EngineReject(c) ==
  /\ c \in Pending /\ c.st = "sent"
  /\ c.op \in {"play_sound", "seek_instance", "stop_all"}
  /\ cmds' = Answer(cmds, c, [c EXCEPT !.st = "err"])
  /\ UNCHANGED cfgVars
  /\ lastAct' = "step"
  /\ UNCHANGED used
  /\ UNCHANGED <<now, engVars, storeVars, appVars, histVars>>

\* StepMs of wall-clock time: every Playing cursor advances; an instance whose
\* cursor reaches the duration completes, leaves the table and one "finished"
\* event is queued for it.
Tick ==
  /\ now < MaxTime
  /\ now' = now + StepMs
  /\ LET adv(i) == IF engInst[i].paused THEN engInst[i].cursor
                   ELSE Min(Duration, engInst[i].cursor + StepMs)
         done == {i \in DOMAIN engInst : ~engInst[i].paused /\ adv(i) >= Duration}
     IN  /\ engInst' = [i \in (DOMAIN engInst) \ done |->
                          [engInst[i] EXCEPT !.cursor = adv(i)]]
         /\ chanFinished' = chanFinished \cup done
  /\ UNCHANGED cfgVars
  /\ lastAct' = "step"
  /\ UNCHANGED used
  /\ UNCHANGED <<engNextId, chanProgress, cmds, storeVars, appVars, histVars>>

\* Telemetry: one snapshot of one active instance
Snapshot(i) ==
  [id |-> engInst[i].key, instance_id |-> i, position_ms |-> engInst[i].cursor,
   duration_ms |-> Duration, is_paused |-> engInst[i].paused]

EmitProgress(i) ==
  /\ i \in DOMAIN engInst
  /\ used.emits < MaxEmits
  /\ Use("emits")
  /\ chanProgress' = chanProgress (+) SetToBag({Snapshot(i)})
  /\ UNCHANGED cfgVars
  /\ lastAct' = "step"
  /\ UNCHANGED <<now, engInst, engNextId, chanFinished, cmds, storeVars, appVars, histVars>>

\* ------------------------------------------------------------- store
\* this.buttons.find(b => b.id === buttonId): index of the first match, 0 if none
FindButton(btns, id) ==
  IF \E k \in 1..Len(btns) : btns[k].id = id
  THEN CHOOSE k \in 1..Len(btns) :
         /\ btns[k].id = id
         /\ \A j \in 1..(k - 1) : btns[j].id # id
  ELSE 0

\* this.buttons.find(b => b.id.toString() === key)
FindButtonByKey(btns, key) ==
  IF \E k \in 1..Len(btns) : IdToString(btns[k].id) = key
  THEN CHOOSE k \in 1..Len(btns) :
         /\ IdToString(btns[k].id) = key
         /\ \A j \in 1..(k - 1) : IdToString(btns[j].id) # key
  ELSE 0

\* if (button && button.activeInstances > 0) button.activeInstances--
DecrementActive(btns, key) ==
  LET k == FindButtonByKey(btns, key)
  IN  IF k # 0 /\ btns[k].activeInstances > 0
      THEN [btns EXCEPT ![k].activeInstances = @ - 1]
      ELSE btns

\* playSound, up to the await
PlaySound(buttonId) ==
  LET k == FindButton(buttons, buttonId)
  IN  /\ k # 0 /\ buttons[k].path # NoPath
      /\ used.plays < MaxPlays
      /\ Use("plays")
      /\ buttons' = [buttons EXCEPT ![k].activeInstances = @ + 1, ![k].isPaused = FALSE]
      /\ cmds' = Send(cmds, [NewCmd("play_sound") EXCEPT
                               !.key = IdToString(buttonId), !.btn = k,
                               !.name = buttons[k].name,
                               !.vol = buttons[k].volume])
      /\ UNCHANGED cfgVars
      /\ lastAct' = "step"
      /\ UNCHANGED <<now, engVars, activeProgresses, seekingInstanceId, seekRecovery,
                     appVars, histVars>>

\* playSound, after the await: nothing on success, the catch block on failure.
\* The catch block decrements the object that playSound found before the
\* await; k = 0 when that object has left the grid since, and the grid is
\* then unchanged.
PlaySoundFailed(btns, k) ==
  IF k = 0 THEN btns ELSE [btns EXCEPT ![k].activeInstances = @ - 1]

\* The button object playSound holds while it awaits: position k of the grid
\* is given a new object (updateButton), or the objects first .. last leave
\* the grid and the later ones move up (splice)
RebindButton(c, first, last) ==
  IF c.op # "play_sound" \/ c.btn < first THEN c
  ELSE IF c.btn <= last THEN [c EXCEPT !.btn = 0]
  ELSE c

SpliceButton(c, first, last) ==
  IF c.op # "play_sound" \/ c.btn < first THEN c
  ELSE IF c.btn <= last THEN [c EXCEPT !.btn = 0]
  ELSE [c EXCEPT !.btn = @ - (last - first + 1)]

ReplaceButtonObject(bag, k) ==
  LET S == BagToSet(bag)
  IN  [d \in {RebindButton(c, k, k) : c \in S} |->
         BagSum(bag, {c \in S : RebindButton(c, k, k) = d})]

SpliceButtonObjects(bag, first, last) ==
  LET S == BagToSet(bag)
  IN  [d \in {SpliceButton(c, first, last) : c \in S} |->
         BagSum(bag, {c \in S : SpliceButton(c, first, last) = d})]

PlaySoundDone(c) ==
  /\ c \in Pending /\ c.op = "play_sound" /\ c.st \in {"ok", "err"}
  /\ cmds' = Drop(cmds, c)
  /\ buttons' = IF c.st = "err" THEN PlaySoundFailed(buttons, c.btn) ELSE buttons
  /\ UNCHANGED cfgVars
  /\ lastAct' = "step"
  /\ UNCHANGED used
  /\ UNCHANGED <<now, engVars, activeProgresses, seekingInstanceId, seekRecovery,
                 appVars, histVars>>

\* togglePauseInstance, up to the await
SendToggle(bag, instanceId, caller) ==
  Send(bag, [NewCmd("toggle_pause_instance") EXCEPT !.inst = instanceId,
                                                     !.caller = caller])

TogglePauseInstance(instanceId) ==
  /\ instanceId \in DOMAIN activeProgresses
  /\ used.toggles < MaxToggles
  /\ Use("toggles")
  /\ cmds' = SendToggle(cmds, instanceId, "ui")
  /\ UNCHANGED cfgVars
  /\ lastAct' = "step"
  /\ UNCHANGED <<now, engVars, storeVars, appVars, histVars>>

\* handleSeekEnd, lines 132-134
SeekEndFinish(instanceId) ==
  /\ wasPlayingBeforeSeek' = MapDelete(wasPlayingBeforeSeek, instanceId)
  /\ seekingInstanceId' = None
  /\ localSeekValue' = NullValue

\* togglePauseInstance, after the await, followed by the rest of the handler
\* that awaited it
TogglePauseDone(c) ==
  /\ c \in Pending /\ c.op = "toggle_pause_instance" /\ c.st \in {"ok", "err"}
  /\ cmds' = Drop(cmds, c)
  /\ activeProgresses' =
       IF c.st = "ok" /\ c.inst \in DOMAIN activeProgresses
       THEN [activeProgresses EXCEPT ![c.inst].is_paused = c.retPaused]
       ELSE activeProgresses
  /\ IF c.caller = "seekEnd"
     THEN SeekEndFinish(c.inst)
     ELSE UNCHANGED <<wasPlayingBeforeSeek, seekingInstanceId, localSeekValue>>
  /\ UNCHANGED cfgVars
  /\ lastAct' = "step"
  /\ UNCHANGED used
  /\ UNCHANGED <<now, engVars, buttons, seekRecovery, pointerDown, histVars>>

\* queueList.filter(item => item.id === buttonId.toString()): the entries that
\* were registered under the button's id
ActiveForButton(ap, buttonId) ==
  {i \in DOMAIN ap : ap[i].id = IdToString(buttonId)}

\* togglePauseLatest: activeForButton[0], the entry of the button that was
\* registered last.  Entries are registered in the order of their instance
\* ids as long as no entry has been deleted and registered again.
LatestInstance(ap, buttonId) ==
  CHOOSE i \in ActiveForButton(ap, buttonId) :
    \A j \in ActiveForButton(ap, buttonId) : j <= i

\* togglePauseLatest, up to the await in togglePauseInstance
TogglePauseLatest(buttonId) ==
  /\ ActiveForButton(activeProgresses, buttonId) # {}
  /\ TogglePauseInstance(LatestInstance(activeProgresses, buttonId))

\* stopInstance, up to the await
StopInstance(instanceId) ==
  /\ instanceId \in DOMAIN activeProgresses
  /\ used.stops < MaxStops
  /\ Use("stops")
  /\ cmds' = Send(cmds, [NewCmd("stop_instance") EXCEPT !.inst = instanceId])
  /\ UNCHANGED cfgVars
  /\ lastAct' = "step"
  /\ UNCHANGED <<now, engVars, storeVars, appVars, histVars>>

\* Bookkeeping shared by stopInstance and the audio-finished listener:
\* decrement the button's counter and delete the entry, if there is an entry
RemoveProgress(ids) ==
  /\ activeProgresses' = [i \in (DOMAIN activeProgresses) \ ids |-> activeProgresses[i]]
  /\ removedIds' = removedIds \cup (ids \cap DOMAIN activeProgresses)
  /\ seekT' = [i \in InstIds |-> IF i \in ids \cap DOMAIN activeProgresses
                                 THEN NullValue ELSE seekT[i]]
  /\ lastAcc' = [i \in InstIds |-> IF i \in ids \cap DOMAIN activeProgresses
                                   THEN NullValue ELSE lastAcc[i]]

\* stopInstance, after the await
StopInstanceDone(c) ==
  /\ c \in Pending /\ c.op = "stop_instance" /\ c.st \in {"ok", "err"}
  /\ c.caller = "ui"
  /\ IF c.st = "ok" /\ c.inst \in DOMAIN activeProgresses
     THEN /\ buttons' = DecrementActive(buttons, activeProgresses[c.inst].id)
          /\ RemoveProgress({c.inst})
          /\ cmds' = DetachItems(Drop(cmds, c), {c.inst}, activeProgresses)
     ELSE /\ cmds' = Drop(cmds, c)
          /\ UNCHANGED <<buttons, activeProgresses, histVars>>
  /\ UNCHANGED cfgVars
  /\ lastAct' = "step"
  /\ UNCHANGED used
  /\ UNCHANGED <<now, engVars, seekingInstanceId, seekRecovery, appVars>>

\* stopAll, up to the await
StopAll ==
  /\ used.stopAlls < MaxStopAlls
  /\ Use("stopAlls")
  /\ cmds' = Send(cmds, NewCmd("stop_all"))
  /\ UNCHANGED cfgVars
  /\ lastAct' = "step"
  /\ UNCHANGED <<now, engVars, storeVars, appVars, histVars>>

\* stopAll, the statements after the await
StopAllApply_KeepCount(btns) ==
  [k \in 1..Len(btns) |-> [btns[k] EXCEPT !.isPaused = FALSE]]

StopAllApply(btns) ==
  [k \in 1..Len(btns) |-> [btns[k] EXCEPT !.activeInstances = 0, !.isPaused = FALSE]]

StopAllDone(c) ==
  /\ c \in Pending /\ c.op = "stop_all" /\ c.st \in {"ok", "err"}
  /\ IF c.st = "ok"
     THEN /\ buttons' = StopAllApply(buttons)
          /\ RemoveProgress(DOMAIN activeProgresses)
          /\ cmds' = DetachItems(Drop(cmds, c), DOMAIN activeProgresses, activeProgresses)
     ELSE /\ cmds' = Drop(cmds, c)
          /\ UNCHANGED <<buttons, activeProgresses, histVars>>
  /\ UNCHANGED cfgVars
  /\ lastAct' = IF c.st = "ok" THEN "stopAllOk" ELSE "stopAllErr"
  /\ UNCHANGED used
  /\ UNCHANGED <<now, engVars, seekingInstanceId, seekRecovery, appVars>>

\* ------------------------------------------------------------ listeners
\* audio-progress, lines 139-146: what the recovery target says about a payload
RecoveryCheck_NoFilter(recovery, payload) ==
  IF payload.instance_id \in DOMAIN recovery THEN "clear" ELSE "apply"

RecoveryCheck(recovery, payload) ==
  IF payload.instance_id \in DOMAIN recovery
  THEN IF payload.position_ms >= recovery[payload.instance_id] - Tolerance
       THEN "clear" ELSE "discard"
  ELSE "apply"

\* audio-progress, line 142: a payload that reaches the target clears it
RecoveryAfter_Keep(recovery, payload) == recovery

RecoveryAfter(recovery, payload) ==
  IF RecoveryCheck(recovery, payload) = "clear"
  THEN MapDelete(recovery, payload.instance_id)
  ELSE recovery

\* audio-progress, lines 148-169: update the existing entry or create one
ApplySnapshot_ByKey(ap, payload, t) ==
  LET entry == [id |-> payload.id, instance_id |-> payload.instance_id,
                position_ms |-> payload.position_ms,
                duration_ms |-> payload.duration_ms,
                is_paused |-> payload.is_paused,
                last_sync_time |-> t, last_sync_pos |-> payload.position_ms]
      all == MapSet(ap, payload.instance_id, entry)
  IN  [j \in DOMAIN all |->
         IF all[j].id = payload.id THEN [entry EXCEPT !.instance_id = j] ELSE all[j]]

ApplySnapshot(ap, payload, t) ==
  LET i == payload.instance_id
  IN  IF i \in DOMAIN ap
      THEN [ap EXCEPT ![i] = [@ EXCEPT
              !.last_sync_pos = payload.position_ms,
              !.last_sync_time = t,
              !.is_paused = payload.is_paused,
              !.duration_ms = payload.duration_ms,
              !.position_ms = IF payload.is_paused THEN payload.position_ms ELSE @]]
      ELSE MapSet(ap, i,
             [id |-> payload.id, instance_id |-> i,
              position_ms |-> payload.position_ms,
              duration_ms |-> payload.duration_ms,
              is_paused |-> payload.is_paused,
              last_sync_time |-> t, last_sync_pos |-> payload.position_ms])

\* audio-progress, lines 171-174
SetButtonPaused(btns, key, paused) ==
  LET k == FindButtonByKey(btns, key)
  IN  IF k # 0 THEN [btns EXCEPT ![k].isPaused = paused] ELSE btns

\* audio-progress line 137 and startAnimationLoop line 115: the instance whose
\* slider is being dragged is skipped
Dragged_Never(seeking, instanceId) == FALSE

Dragged(seeking, instanceId) == seeking = instanceId

\* the audio-progress listener
DeliverProgress(payload) ==
  /\ payload \in BagToSet(chanProgress)
  /\ chanProgress' = chanProgress (-) SetToBag({payload})
  /\ LET i == payload.instance_id
         verdict == RecoveryCheck(seekRecovery, payload)
     IN  IF Dragged(seekingInstanceId, i) \/ verdict = "discard"
         THEN UNCHANGED <<buttons, activeProgresses, seekRecovery, lastAcc>>
         ELSE /\ seekRecovery' = RecoveryAfter(seekRecovery, payload)
              /\ activeProgresses' = ApplySnapshot(activeProgresses, payload, now)
              /\ buttons' = SetButtonPaused(buttons, payload.id, payload.is_paused)
              /\ lastAcc' = [lastAcc EXCEPT ![i] = payload.position_ms]
  /\ UNCHANGED cfgVars
  /\ lastAct' = IF seekingInstanceId = payload.instance_id THEN "progressDrag"
                ELSE IF RecoveryCheck(seekRecovery, payload) = "discard"
                     THEN "progressDiscard"
                ELSE IF RecoveryCheck(seekRecovery, payload) = "clear"
                     THEN "progressClear"
                ELSE "step"
  /\ UNCHANGED used
  /\ UNCHANGED <<now, engInst, engNextId, chanFinished, cmds, seekingInstanceId,
                 appVars, seekT, removedIds>>

\* the audio-finished listener
DeliverFinished(instanceId) ==
  /\ instanceId \in chanFinished
  /\ chanFinished' = chanFinished \ {instanceId}
  /\ IF instanceId \in DOMAIN activeProgresses
     THEN /\ buttons' = DecrementActive(buttons, activeProgresses[instanceId].id)
          /\ RemoveProgress({instanceId})
          /\ cmds' = DetachItems(cmds, {instanceId}, activeProgresses)
     ELSE UNCHANGED <<buttons, activeProgresses, cmds, histVars>>
  /\ UNCHANGED cfgVars
  /\ lastAct' = "step"
  /\ UNCHANGED used
  /\ UNCHANGED <<now, engInst, engNextId, chanProgress, seekingInstanceId, seekRecovery,
                 appVars>>

\* one frame of startAnimationLoop
Project_NoClamp(progress, t) ==
  progress.last_sync_pos + (t - progress.last_sync_time)

Project(progress, t) ==
  Min(progress.duration_ms, progress.last_sync_pos + (t - progress.last_sync_time))

AnimationTick ==
  /\ activeProgresses' =
       [i \in DOMAIN activeProgresses |->
          IF Dragged(seekingInstanceId, i) \/ activeProgresses[i].is_paused
          THEN activeProgresses[i]
          ELSE [activeProgresses[i] EXCEPT
                  !.position_ms = Project(activeProgresses[i], now)]]
  /\ UNCHANGED cfgVars
  /\ lastAct' = "animationTick"
  /\ UNCHANGED used
  /\ UNCHANGED <<now, engVars, cmds, buttons, seekingInstanceId, seekRecovery, appVars,
                 histVars>>

\* --------------------------------------------------------- seek gesture
\* pointerdown on the slider of an instance shown in the queue
HandleSeekStart(instanceId) ==
  /\ pointerDown = None
  /\ instanceId \in DOMAIN activeProgresses
  /\ used.gestures < MaxGestures
  /\ Use("gestures")
  /\ LET item == activeProgresses[instanceId]
         wasPlaying == ~item.is_paused
     IN  /\ seekingInstanceId' = instanceId
         /\ localSeekValue' = item.position_ms
         /\ wasPlayingBeforeSeek' = MapSet(wasPlayingBeforeSeek, instanceId, wasPlaying)
         /\ cmds' = IF wasPlaying THEN SendToggle(cmds, instanceId, "seekStart") ELSE cmds
  /\ pointerDown' = instanceId
  /\ UNCHANGED cfgVars
  /\ lastAct' = "step"
  /\ UNCHANGED <<now, engVars, buttons, activeProgresses, seekRecovery, histVars>>

\* the slider moves under the pointer
HandleSeek(instanceId, v) ==
  /\ pointerDown = instanceId
  /\ localSeekValue' = IF seekingInstanceId = instanceId THEN v ELSE localSeekValue
  /\ UNCHANGED cfgVars
  /\ lastAct' = "step"
  /\ UNCHANGED used
  /\ UNCHANGED <<now, engVars, cmds, storeVars, wasPlayingBeforeSeek, pointerDown,
                 histVars>>

\* handleSeekEnd from line 128 on: resume if the instance was playing and the
\* item is paused, then clean up
SeekEndTail(bag, instanceId, wasPlaying, itemPaused) ==
  IF wasPlaying /\ itemPaused
  THEN /\ cmds' = SendToggle(bag, instanceId, "seekEnd")
       /\ UNCHANGED <<wasPlayingBeforeSeek, seekingInstanceId, localSeekValue>>
  ELSE /\ cmds' = bag
       /\ SeekEndFinish(instanceId)

\* handleSeekEnd, line 122
RecordRecovery_Forgotten(recovery, instanceId, finalPos) == recovery

RecordRecovery(recovery, instanceId, finalPos) == MapSet(recovery, instanceId, finalPos)

\* pointerup, handleSeekEnd up to its first await
HandleSeekEnd(instanceId) ==
  /\ pointerDown = instanceId
  /\ instanceId \in DOMAIN activeProgresses
  /\ pointerDown' = None
  /\ LET item == activeProgresses[instanceId]
         wasPlaying == IF instanceId \in DOMAIN wasPlayingBeforeSeek
                       THEN wasPlayingBeforeSeek[instanceId] ELSE FALSE
     IN  IF localSeekValue # NullValue
         THEN /\ seekRecovery' = RecordRecovery(seekRecovery, instanceId, localSeekValue)
              /\ cmds' = Send(cmds, [NewCmd("seek_instance") EXCEPT
                                       !.inst = instanceId, !.pos = localSeekValue,
                                       !.wasPlaying = wasPlaying, !.item = "live"])
              /\ seekT' = [seekT EXCEPT ![instanceId] = NullValue]
              /\ lastAcc' = [lastAcc EXCEPT ![instanceId] = NullValue]
              /\ UNCHANGED <<wasPlayingBeforeSeek, seekingInstanceId, localSeekValue>>
         ELSE /\ SeekEndTail(cmds, instanceId, wasPlaying, item.is_paused)
              /\ UNCHANGED <<seekRecovery, seekT, lastAcc>>
  /\ UNCHANGED cfgVars
  /\ lastAct' = "handleSeekEnd"
  /\ UNCHANGED used
  /\ UNCHANGED <<now, engVars, buttons, activeProgresses, removedIds>>

\* handleSeekEnd after seek_instance has answered; a rejected command throws
\* out of the handler
HandleSeekEndDone(c) ==
  /\ c \in Pending /\ c.op = "seek_instance" /\ c.st \in {"ok", "err"}
  /\ IF c.st = "ok"
     THEN /\ activeProgresses' =
               IF c.item = "live"
               THEN [activeProgresses EXCEPT ![c.inst].position_ms = c.pos]
               ELSE activeProgresses
          /\ SeekEndTail(Drop(cmds, c), c.inst, c.wasPlaying,
                         IF c.item = "live" THEN activeProgresses[c.inst].is_paused
                         ELSE c.item = "deadPaused")
          /\ seekT' = IF c.item = "live" THEN [seekT EXCEPT ![c.inst] = c.pos] ELSE seekT
          /\ lastAcc' = IF c.item = "live" THEN [lastAcc EXCEPT ![c.inst] = NullValue]
                        ELSE lastAcc
     ELSE /\ cmds' = Drop(cmds, c)
          /\ UNCHANGED <<activeProgresses, wasPlayingBeforeSeek, seekingInstanceId,
                         localSeekValue, seekT, lastAcc>>
  /\ UNCHANGED cfgVars
  /\ lastAct' = "step"
  /\ UNCHANGED used
  /\ UNCHANGED <<now, engVars, buttons, seekRecovery, pointerDown, removedIds>>

\* the slider under the pointer leaves the queue with its instance: no
\* pointerup reaches it
AbandonGesture ==
  /\ pointerDown # None
  /\ pointerDown \notin DOMAIN activeProgresses
  /\ pointerDown' = None
  /\ UNCHANGED cfgVars
  /\ lastAct' = "step"
  /\ UNCHANGED used
  /\ UNCHANGED <<now, engVars, cmds, storeVars, localSeekValue, wasPlayingBeforeSeek,
                 histVars>>

\* ------------------------------------------------- settings and library
\* What a handler of this section leaves alone
playVars == <<now, engVars, activeProgresses, seekingInstanceId, seekRecovery, appVars,
              histVars>>

\* The store's settings once init() has run without a settings file
InitSettings ==
  [masterVolume |-> FullVolume, currentDevice |-> DefaultDevice, currentPage |-> 0,
   totalPages |-> InitTotalPages,
   pageNames |-> [i \in 1..InitTotalPages |-> PageName(i - 1)],
   reducedMotion |-> FALSE, accentColor |-> "Default",
   titlebarStyle |-> "windows", controlsSide |-> "right"]

\* init() and addPage: the buttons first .. last of a new grid
NewButton(i) ==
  [id |-> i, path |-> NoPath, name |-> DefaultName(i), volume |-> DefaultVolume,
   color |-> DefaultColor, isPaused |-> FALSE, activeInstances |-> 0]

\* store.bin before the first save
NoDisk ==
  [present |-> FALSE, buttons |-> <<>>, masterVolume |-> 0, currentDevice |-> NoDevice,
   totalPages |-> 0, pageNames |-> <<>>, reducedMotion |-> FALSE, accentColor |-> "",
   titlebarStyle |-> "", controlsSide |-> ""]

\* saveSettings: what is written
SavedButton(b) ==
  [id |-> b.id, path |-> b.path, name |-> b.name, volume |-> b.volume, color |-> b.color]

Saved(btns, st) ==
  [present |-> TRUE,
   buttons |-> [k \in 1..Len(btns) |-> SavedButton(btns[k])],
   masterVolume |-> st.masterVolume, currentDevice |-> st.currentDevice,
   totalPages |-> st.totalPages, pageNames |-> st.pageNames,
   reducedMotion |-> st.reducedMotion, accentColor |-> st.accentColor,
   titlebarStyle |-> st.titlebarStyle, controlsSide |-> st.controlsSide]

\* this.saveSettings(): the call returns at its first await; the values are
\* read and written when it resumes
QueueSave(bag) == Send(bag, NewCmd("save_settings"))

SaveSettingsRun(c, ok) ==
  /\ c \in Pending /\ c.op = "save_settings"
  /\ cmds' = Drop(cmds, c)
  /\ disk' = IF ok THEN Saved(buttons, settings) ELSE disk
  /\ lastAct' = "step"
  /\ UNCHANGED <<playVars, buttons, used, settings, engDevice, library, preloaded, lastDrop>>

\* paginatedButtons: the buttons of the current page
PageButtons(btns, st) ==
  SubSeq(btns, st.currentPage * ItemsPerPage + 1,
         Min(st.currentPage * ItemsPerPage + ItemsPerPage, Len(btns)))

\* The paths of the current page's buttons
PagePaths(btns, st) ==
  {PageButtons(btns, st)[k].path : k \in 1..Len(PageButtons(btns, st))} \ {NoPath}

RECURSIVE SendPreloads(_, _)
\* preloadCurrentPage: one preload_sound per button of the page that has a
\* path, none of them awaited
SendPreloads(bag, page) ==
  IF page = <<>> THEN bag
  ELSE LET btn == Head(page)
           next == IF btn.path # NoPath
                   THEN Send(bag, [NewCmd("preload_sound") EXCEPT !.path = btn.path])
                   ELSE bag
       IN  SendPreloads(next, Tail(page))

PreloadCurrentPage(bag, btns, st) == SendPreloads(bag, PageButtons(btns, st))

\* { ...current, ...updates }
Merge(current, updates) ==
  [f \in DOMAIN current |-> IF f \in DOMAIN updates THEN updates[f] ELSE current[f]]

\* updateButton: the buttons after it, and whether it saves
UpdateButton(btns, id, updates) ==
  LET index == FindButton(btns, id)
  IN  IF index # 0 THEN [btns EXCEPT ![index] = Merge(@, updates)] ELSE btns

SaveAfterUpdate(bag, btns, id) ==
  IF FindButton(btns, id) # 0
  THEN QueueSave(ReplaceButtonObject(bag, FindButton(btns, id)))
  ELSE bag

\* A settings handler that writes the store and calls saveSettings
Edit(field, value) ==
  /\ used.edits < MaxEdits
  /\ Use("edits")
  /\ settings' = [settings EXCEPT ![field] = value]
  /\ cmds' = QueueSave(cmds)
  /\ lastAct' = "step"
  /\ UNCHANGED <<playVars, buttons, disk, engDevice, library, preloaded, lastDrop>>

SetReducedMotion(enabled) == Edit("reducedMotion", enabled)
SetAccentColor(colorName) == Edit("accentColor", colorName)
SetTitlebarStyle(style) == Edit("titlebarStyle", style)
SetControlsSide(side) == Edit("controlsSide", side)

UpdatePageName(index, name) ==
  /\ index >= 0 /\ index < Len(settings.pageNames)
  /\ Edit("pageNames", [settings.pageNames EXCEPT ![index + 1] = name])

\* GlowButton: handleRename and handleVolumeChange
EditButton(id, updates) ==
  /\ FindButton(buttons, id) # 0
  /\ used.edits < MaxEdits
  /\ Use("edits")
  /\ buttons' = UpdateButton(buttons, id, updates)
  /\ cmds' = SaveAfterUpdate(cmds, buttons, id)
  /\ lastAct' = "step"
  /\ UNCHANGED <<playVars, settings, disk, engDevice, library, preloaded, lastDrop>>

HandleRename(id, newName) == newName # NoName /\ EditButton(id, [name |-> newName])
HandleVolumeChange(id, v) == EditButton(id, [volume |-> v])

\* setMasterVolume, up to the await
SetMasterVolume_Buttons(btns, volume) ==
  [k \in 1..Len(btns) |-> [btns[k] EXCEPT !.volume = volume]]

SetMasterVolumeButtons(btns, volume) == btns

SetMasterVolume(volume) ==
  /\ used.edits < MaxEdits
  /\ Use("edits")
  /\ settings' = [settings EXCEPT !.masterVolume = volume]
  /\ buttons' = SetMasterVolumeButtons(buttons, volume)
  /\ cmds' = Send(cmds, [NewCmd("update_master_volume") EXCEPT !.vol = volume])
  /\ lastAct' = "setMasterVolume"
  /\ UNCHANGED <<playVars, disk, engDevice, library, preloaded, lastDrop>>

\* update_master_volume: the command either succeeds or is rejected
EngineMasterVolume(c, ok) ==
  /\ c \in Pending /\ c.op = "update_master_volume" /\ c.st = "sent"
  /\ cmds' = Answer(cmds, c, [c EXCEPT !.st = IF ok THEN "ok" ELSE "err"])
  /\ lastAct' = "step"
  /\ UNCHANGED <<playVars, buttons, used, cfgVars>>

\* setMasterVolume, after the await
SetMasterVolumeDone(c) ==
  /\ c \in Pending /\ c.op = "update_master_volume" /\ c.st \in {"ok", "err"}
  /\ c.caller = "ui"
  /\ cmds' = IF c.st = "ok" THEN QueueSave(Drop(cmds, c)) ELSE Drop(cmds, c)
  /\ lastAct' = IF c.st = "ok" THEN "masterVolumeOk" ELSE "masterVolumeErr"
  /\ UNCHANGED <<playVars, buttons, used, cfgVars>>

\* setOutputDevice, up to the await
SendSetDevice(bag, deviceName, caller) ==
  Send(bag, [NewCmd("set_audio_device") EXCEPT !.dev = deviceName, !.caller = caller])

SetOutputDevice(deviceName) ==
  /\ used.edits < MaxEdits
  /\ Use("edits")
  /\ cmds' = SendSetDevice(cmds, deviceName, "ui")
  /\ lastAct' = "step"
  /\ UNCHANGED <<playVars, buttons, cfgVars>>

\* set_device: on success the engine uses the device, on DeviceError it keeps
\* the previous one
EngineSetDevice(c, ok) ==
  /\ c \in Pending /\ c.op = "set_audio_device" /\ c.st = "sent"
  /\ cmds' = Answer(cmds, c, [c EXCEPT !.st = IF ok THEN "ok" ELSE "err"])
  /\ engDevice' = IF ok THEN c.dev ELSE engDevice
  /\ lastAct' = "step"
  /\ UNCHANGED <<playVars, buttons, used, settings, disk, library, preloaded, lastDrop>>

\* setOutputDevice, after the await
DeviceAfter_Always(current, c) == c.dev

DeviceAfter(current, c) == IF c.st = "ok" THEN c.dev ELSE current

SaveAfterDevice(bag, c) == IF c.st = "ok" THEN QueueSave(bag) ELSE bag

SetOutputDeviceDone(c) ==
  /\ c \in Pending /\ c.op = "set_audio_device" /\ c.st \in {"ok", "err"}
  /\ settings' = [settings EXCEPT !.currentDevice = DeviceAfter(@, c)]
  /\ cmds' = IF c.caller = "load"
             THEN PreloadCurrentPage(SaveAfterDevice(Drop(cmds, c), c), buttons, settings)
             ELSE SaveAfterDevice(Drop(cmds, c), c)
  /\ lastAct' = IF c.caller = "load" THEN "loaded"
                ELSE IF c.st = "ok" THEN "deviceOk" ELSE "deviceErr"
  /\ preloaded' = IF c.caller = "load" THEN PagePaths(buttons, settings) ELSE preloaded
  /\ UNCHANGED <<playVars, buttons, used, disk, engDevice, library, lastDrop>>

\* The file name of a path without its extension
\* (path.split('\\').pop()?.split('/').pop()?.replace(/\.[^/.]+$/, ""))
BaseName(path) ==
  CASE path = ExtPath -> <<"kick", 0>>
    [] path = LibPath -> <<"a", 0>>
    [] path = LibPath2 -> <<"b", 0>>
    [] OTHER -> NoName

\* originalName || <file name of path> || "Audio"
CopyName(originalName, path) ==
  IF originalName # NoName THEN originalName
  ELSE IF BaseName(path) # NoName THEN BaseName(path)
  ELSE <<"Audio", 0>>

\* updateButtonWithCopy (drop or file dialog), up to the await
UpdateButtonWithCopy(id, path, originalName) ==
  /\ FindButton(buttons, id) # 0
  /\ used.files < MaxFiles
  /\ Use("files")
  /\ cmds' = Send(cmds, [NewCmd("save_sound_file") EXCEPT
                           !.id = id, !.path = path, !.name = originalName])
  /\ lastAct' = "step"
  /\ UNCHANGED <<playVars, buttons, cfgVars>>

\* save: copies the file into managed storage and returns the new path, or
\* fails with IOError
EngineSaveFile(c) ==
  /\ c \in Pending /\ c.op = "save_sound_file" /\ c.st = "sent"
  /\ \/ \E p \in LibPaths :
          /\ cmds' = Answer(cmds, c, [c EXCEPT !.st = "ok", !.retPath = p])
          /\ library' = library \cup {p}
     \/ /\ cmds' = Answer(cmds, c, [c EXCEPT !.st = "err"])
        /\ UNCHANGED library
  /\ lastAct' = "step"
  /\ UNCHANGED <<playVars, buttons, used, settings, disk, engDevice, preloaded, lastDrop>>

\* updateButtonWithCopy, after the await: the try branch and the catch branch
UpdateButtonWithCopyDone(c) ==
  /\ c \in Pending /\ c.op = "save_sound_file" /\ c.st \in {"ok", "err"}
  /\ LET path == IF c.st = "ok" THEN c.retPath ELSE c.path
         name == CopyName(c.name, path)
     IN  /\ buttons' = UpdateButton(buttons, c.id, [path |-> path, name |-> name])
         /\ cmds' = SaveAfterUpdate(Drop(cmds, c), buttons, c.id)
  /\ lastAct' = IF c.st = "ok" THEN "copyOk" ELSE "copyErr"
  /\ UNCHANGED <<playVars, used, cfgVars>>

\* Math.ceil(a / b) for a >= 0, b > 0
CeilDiv(a, b) == (a + b - 1) \div b

\* file-dropped listener: Math.floor(relativeX / (rect.width / 4))
DropColumn(relativeX, width) == (GridColumns * relativeX) \div width

\* file-dropped listener:
\* Math.floor(relativeY / (rect.height / Math.ceil(itemsPerPage / 4)))
DropRow(relativeY, height, itemsPerPage) ==
  (CeilDiv(itemsPerPage, GridColumns) * relativeY) \div height

\* updateButtonByCoords: buttonIndex
ButtonIndexByCoords(page, x, y, itemsPerPage) ==
  page * itemsPerPage + (y * GridColumns) + x

\* The bounds check of the file-dropped listener, edges included
InsideGrid(relativeX, relativeY, width, height) ==
  relativeX >= 0 /\ relativeX <= width /\ relativeY >= 0 /\ relativeY <= height

\* file-dropped listener on a grid of width x height pixels, the drop point
\* relative to the grid's corner: the bounds check, the cell, then
\* updateButtonByCoords and updateButtonWithCopy up to its await
FileDropped(width, height, relativeX, relativeY, path) ==
  /\ InsideGrid(relativeX, relativeY, width, height)
  /\ used.files < MaxFiles
  /\ Use("files")
  /\ LET col == DropColumn(relativeX, width)
         row == DropRow(relativeY, height, StoreItemsPerPage)
         buttonIndex == ButtonIndexByCoords(settings.currentPage, col, row,
                                            StoreItemsPerPage)
     IN  /\ lastDrop' = [page |-> settings.currentPage, col |-> col, row |-> row,
                         index |-> buttonIndex]
         /\ cmds' = Send(cmds, [NewCmd("save_sound_file") EXCEPT
                                  !.id = buttonIndex, !.path = path])
  /\ lastAct' = "step"
  /\ UNCHANGED <<playVars, buttons, settings, disk, engDevice, library, preloaded>>

\* delete: removes a file of managed storage, or fails with IOError
EngineDeleteFile(c, ok) ==
  /\ c \in Pending /\ c.op = "delete_sound_file" /\ c.st = "sent"
  /\ cmds' = Answer(cmds, c, [c EXCEPT !.st = IF ok THEN "ok" ELSE "err"])
  /\ lastAct' = "step"
  /\ UNCHANGED <<playVars, buttons, used, cfgVars>>

\* GlowButton reset, lines 110-116
ResetButton_IfDeleted(btns, id, deleted) ==
  IF deleted
  THEN UpdateButton(btns, id,
         [path |-> NoPath, name |-> DefaultName(id), volume |-> DefaultVolume,
          activeInstances |-> 0, isPaused |-> FALSE])
  ELSE btns

ResetButton(btns, id, deleted) ==
  UpdateButton(btns, id,
    [path |-> NoPath, name |-> DefaultName(id), volume |-> DefaultVolume,
     activeInstances |-> 0, isPaused |-> FALSE])

\* GlowButton reset, up to the await in deleteSoundFile; without a path the
\* button is updated at once
Reset(id) ==
  /\ FindButton(buttons, id) # 0
  /\ used.files < MaxFiles
  /\ Use("files")
  /\ LET button == buttons[FindButton(buttons, id)]
     IN  IF button.path # NoPath
         THEN /\ cmds' = Send(cmds, [NewCmd("delete_sound_file") EXCEPT
                                       !.id = id, !.path = button.path,
                                       !.caller = "reset"])
              /\ UNCHANGED buttons
              /\ lastAct' = "step"
         ELSE /\ buttons' = ResetButton(buttons, id, TRUE)
              /\ cmds' = SaveAfterUpdate(cmds, buttons, id)
              /\ lastAct' = "reset"
  /\ UNCHANGED <<playVars, cfgVars>>

\* GlowButton reset after deleteSoundFile has returned: deleteSoundFile
\* catches the failure
ResetDone(c) ==
  /\ c \in Pending /\ c.op = "delete_sound_file" /\ c.st \in {"ok", "err"}
  /\ c.caller = "reset"
  /\ buttons' = ResetButton(buttons, c.id, c.st = "ok")
  /\ cmds' = SaveAfterUpdate(Drop(cmds, c), buttons, c.id)
  /\ lastAct' = IF c.st = "ok" THEN "reset" ELSE "resetDeleteFailed"
  /\ UNCHANGED <<playVars, used, cfgVars>>

\* The preloads of earlier page turns have been answered
PreloadsAnswered == \A c \in Pending : c.op # "preload_sound"

\* A page turn: currentPage is written, then preloadCurrentPage runs
TurnPage(page) ==
  /\ PreloadsAnswered
  /\ settings' = [settings EXCEPT !.currentPage = page]
  /\ cmds' = PreloadCurrentPage(cmds, buttons, settings')
  /\ preloaded' = preloaded \cup PagePaths(buttons, settings')
  /\ lastAct' = "step"
  /\ UNCHANGED <<playVars, buttons, used, disk, engDevice, library, lastDrop>>

\* setPage
SetPage(page) ==
  /\ page >= 0 /\ page < settings.totalPages
  /\ page # settings.currentPage
  /\ TurnPage(page)

\* nextPage
NextPage ==
  /\ settings.currentPage < settings.totalPages - 1
  /\ TurnPage(settings.currentPage + 1)

\* prevPage
PrevPage ==
  /\ settings.currentPage > 0
  /\ TurnPage(settings.currentPage - 1)

\* preload: decodes the file into the cache, or fails with DecodeError; no
\* instance is created, and the caller's empty catch discards the answer
EnginePreload(c, ok) ==
  /\ c \in Pending /\ c.op = "preload_sound" /\ c.st = "sent"
  /\ cmds' = Drop(cmds, c)
  /\ lastAct' = IF ok THEN "step" ELSE "preloadFailed"
  /\ UNCHANGED <<playVars, buttons, used, cfgVars>>

\* addPage
AddPage ==
  /\ settings.totalPages < MaxPages
  /\ LET newPageCount == settings.totalPages + 1
         startId == Len(buttons)
     IN  /\ buttons' = buttons \o [i \in 1..ItemsPerPage |-> NewButton(startId + i - 1)]
         /\ settings' = [settings EXCEPT
                           !.pageNames = Append(@, PageName(newPageCount - 1)),
                           !.totalPages = newPageCount,
                           !.currentPage = newPageCount - 1]
  /\ cmds' = QueueSave(cmds)
  /\ lastAct' = "step"
  /\ UNCHANGED <<playVars, used, disk, engDevice, library, preloaded, lastDrop>>

\* removeCurrentPage, lines 366-376: the grid and the settings without the page
RemovePage(btns, startIndex) ==
  LET kept == SubSeq(btns, 1, Min(startIndex, Len(btns))) \o
              SubSeq(btns, startIndex + ItemsPerPage + 1, Len(btns))
  IN  [k \in 1..Len(kept) |-> [kept[k] EXCEPT !.id = k - 1]]

RECURSIVE SendDeletes(_, _)
\* removeCurrentPage, lines 359-363: one delete_sound_file per button with a
\* path, none of them awaited
SendDeletes(bag, removed) ==
  IF removed = <<>> THEN bag
  ELSE LET btn == Head(removed)
           next == IF btn.path # NoPath
                   THEN Send(bag, [NewCmd("delete_sound_file") EXCEPT
                                     !.id = btn.id, !.path = btn.path,
                                     !.caller = "page"])
                   ELSE bag
       IN  SendDeletes(next, Tail(removed))

\* stopAllInstances, line 274: the instances of the queue that were started
\* under the ids of the page's buttons
QueuedOnPage(ap, page) ==
  {i \in DOMAIN ap : \E k \in 1..Len(page) : ap[i].id = IdToString(page[k].id)}

\* removeCurrentPage, lines 367 and 373-376: pageNames, totalPages, currentPage
SettingsWithoutPage(st) ==
  LET total == st.totalPages - 1
  IN  [st EXCEPT
         !.pageNames = SubSeq(@, 1, Min(st.currentPage, Len(@))) \o
                       SubSeq(@, st.currentPage + 2, Len(@)),
         !.totalPages = total,
         !.currentPage = IF @ >= total THEN (IF total - 1 > 0 THEN total - 1 ELSE 0)
                         ELSE @]

\* removeCurrentPage while no instance of the page's buttons is in the queue:
\* stopAllInstances finds nothing to stop, so the handler runs to its end
\* without waiting for a command
RemoveCurrentPage ==
  /\ settings.totalPages > 1
  /\ QueuedOnPage(activeProgresses, PageButtons(buttons, settings)) = {}
  /\ used.files < MaxFiles
  /\ Use("files")
  /\ LET startIndex == settings.currentPage * ItemsPerPage
         buttonsToRemove == PageButtons(buttons, settings)
     IN  /\ buttons' = RemovePage(buttons, startIndex)
         /\ settings' = SettingsWithoutPage(settings)
         /\ cmds' = QueueSave(SendDeletes(
                       SpliceButtonObjects(cmds, startIndex + 1, startIndex + ItemsPerPage),
                       buttonsToRemove))
  /\ lastAct' = "removePage"
  /\ UNCHANGED <<playVars, disk, engDevice, library, preloaded, lastDrop>>

\* removeCurrentPage while one instance of the page's last button is in the
\* queue: the guard is passed, the deletes of the buttons before it are
\* fired, and the handler waits in stopInstance with startIndex and the
\* button's path in hand
RemovePageStart ==
  /\ settings.totalPages > 1
  /\ used.files < MaxFiles
  /\ Use("files")
  /\ LET startIndex == settings.currentPage * ItemsPerPage
         page == PageButtons(buttons, settings)
         queued == QueuedOnPage(activeProgresses, page)
     IN  /\ Len(page) > 0
         /\ \E i \in queued :
              /\ queued = {i}
              /\ activeProgresses[i].id = IdToString(page[Len(page)].id)
              /\ cmds' = Send(SendDeletes(cmds, SubSeq(page, 1, Len(page) - 1)),
                              [NewCmd("stop_instance") EXCEPT
                                 !.inst = i, !.caller = "page", !.pos = startIndex,
                                 !.path = page[Len(page)].path])
  /\ lastAct' = "step"
  /\ UNCHANGED <<playVars, buttons, settings, disk, engDevice, library, preloaded, lastDrop>>

\* removeCurrentPage after stopInstance has returned: the bookkeeping of
\* stopInstance, the delete of the last button's file, then lines 366-379
\* with the startIndex computed before the await
RemovePageDone(c) ==
  /\ c \in Pending /\ c.op = "stop_instance" /\ c.st \in {"ok", "err"}
  /\ c.caller = "page"
  /\ LET stopped == c.st = "ok" /\ c.inst \in DOMAIN activeProgresses
         afterStop == IF stopped
                      THEN DecrementActive(buttons, activeProgresses[c.inst].id)
                      ELSE buttons
         rest == IF stopped THEN DetachItems(Drop(cmds, c), {c.inst}, activeProgresses)
                 ELSE Drop(cmds, c)
         fired == IF c.path # NoPath
                  THEN Send(rest, [NewCmd("delete_sound_file") EXCEPT
                                     !.path = c.path, !.caller = "page"])
                  ELSE rest
     IN  /\ IF stopped THEN RemoveProgress({c.inst})
            ELSE UNCHANGED <<activeProgresses, histVars>>
         /\ buttons' = RemovePage(afterStop, c.pos)
         /\ settings' = SettingsWithoutPage(settings)
         /\ cmds' = QueueSave(SpliceButtonObjects(fired, c.pos + 1, c.pos + ItemsPerPage))
  /\ lastAct' = "removePage"
  /\ UNCHANGED <<now, engVars, seekingInstanceId, seekRecovery, appVars, used, disk,
                 engDevice, library, preloaded, lastDrop>>

\* removeCurrentPage: the .catch of a delete_sound_file it has fired
DeleteDone(c) ==
  /\ c \in Pending /\ c.op = "delete_sound_file" /\ c.st \in {"ok", "err"}
  /\ c.caller = "page"
  /\ cmds' = Drop(cmds, c)
  /\ lastAct' = IF c.st = "ok" THEN "step" ELSE "pageDeleteFailed"
  /\ UNCHANGED <<playVars, buttons, used, cfgVars>>

\* loadSettings with masterVolume restored by truthiness
LoadedSettings_Truthy(st, d) ==
  [st EXCEPT
     !.totalPages = IF d.totalPages # 0 THEN d.totalPages ELSE @,
     !.pageNames = IF d.present THEN d.pageNames ELSE @,
     !.reducedMotion = IF d.present THEN d.reducedMotion ELSE @,
     !.accentColor = IF d.accentColor # "" THEN d.accentColor ELSE @,
     !.titlebarStyle = IF d.titlebarStyle \in {"windows", "mac"}
                       THEN d.titlebarStyle ELSE @,
     !.controlsSide = IF d.controlsSide \in {"left", "right"}
                      THEN d.controlsSide ELSE @,
     !.masterVolume = IF d.present /\ d.masterVolume # 0 THEN d.masterVolume ELSE @]

\* loadSettings, lines 501-525: the settings read from store.bin
LoadedSettings(st, d) ==
  LET total == IF d.totalPages # 0 THEN d.totalPages ELSE st.totalPages
  IN  [st EXCEPT
         !.totalPages = total,
         !.pageNames = IF d.present THEN d.pageNames
                       ELSE [i \in 1..total |-> PageName(i - 1)],
         !.reducedMotion = IF d.present THEN d.reducedMotion ELSE @,
         !.accentColor = IF d.accentColor # "" THEN d.accentColor ELSE @,
         !.titlebarStyle = IF d.titlebarStyle \in {"windows", "mac"}
                           THEN d.titlebarStyle ELSE @,
         !.controlsSide = IF d.controlsSide \in {"left", "right"}
                          THEN d.controlsSide ELSE @,
         !.masterVolume = IF d.present THEN d.masterVolume ELSE @]

\* loadSettings, lines 527-542: the grid rebuilt from the saved buttons
LoadedButtons(d, total) ==
  [k \in 1..(ItemsPerPage * total) |->
     LET i == k - 1
         found == {j \in 1..Len(d.buttons) : d.buttons[j].id = i}
         has == found # {}
         saved == d.buttons[CHOOSE j \in found : \A h \in found : j <= h]
     IN  [id |-> i,
          path |-> IF has /\ saved.path # NoPath /\ saved.path # "" THEN saved.path
                   ELSE NoPath,
          name |-> IF has /\ saved.name[1] # "" THEN saved.name ELSE DefaultName(i),
          volume |-> IF has THEN saved.volume ELSE DefaultVolume,
          color |-> IF has /\ saved.color # "" THEN saved.color ELSE DefaultColor,
          isPaused |-> FALSE,
          activeInstances |-> 0]]

\* The application is started again: a fresh store and a fresh engine, then
\* init() up to the first command loadSettings awaits
Restart ==
  /\ used.restarts < MaxRestarts
  /\ Use("restarts")
  /\ now' = now
  /\ engInst' = EmptyMap /\ engNextId' = 1
  /\ chanProgress' = EmptyBag /\ chanFinished' = {}
  /\ engDevice' = DefaultDevice
  /\ activeProgresses' = EmptyMap
  /\ seekingInstanceId' = None /\ seekRecovery' = EmptyMap
  /\ localSeekValue' = NullValue /\ wasPlayingBeforeSeek' = EmptyMap
  /\ pointerDown' = None
  /\ UNCHANGED <<histVars, disk, library, lastDrop>>
  /\ LET loaded == LoadedSettings(InitSettings, disk)
     IN  /\ settings' = loaded
         /\ buttons' = LoadedButtons(disk, loaded.totalPages)
         /\ cmds' = IF disk.present
                    THEN SetToBag({[NewCmd("update_master_volume") EXCEPT
                                      !.vol = disk.masterVolume, !.caller = "load"]})
                    ELSE PreloadCurrentPage(EmptyBag, buttons', loaded)
         /\ preloaded' = IF disk.present THEN {} ELSE PagePaths(buttons', loaded)
         /\ lastAct' = IF disk.present THEN "step" ELSE "loaded"

\* loadSettings after update_master_volume has answered: a rejection ends
\* loadSettings in its catch, otherwise the saved device is read and set;
\* when loadSettings has returned, init() goes on to preloadCurrentPage
LoadVolumeDone(c) ==
  /\ c \in Pending /\ c.op = "update_master_volume" /\ c.st \in {"ok", "err"}
  /\ c.caller = "load"
  /\ LET savedDevice == disk.currentDevice
     IN  IF c.st = "ok" /\ savedDevice # NoDevice
         THEN /\ cmds' = SendSetDevice(Drop(cmds, c), savedDevice, "load")
              /\ lastAct' = "step"
              /\ UNCHANGED preloaded
         ELSE /\ cmds' = PreloadCurrentPage(Drop(cmds, c), buttons, settings)
              /\ preloaded' = PagePaths(buttons, settings)
              /\ lastAct' = "loaded"
  /\ UNCHANGED <<playVars, buttons, used, settings, disk, engDevice, library, lastDrop>>

\* ------------------------------------------------------- specification
InitButtons ==
  {[k \in 1..NumButtons |->
      [id |-> k - 1, path |-> paths[k], name |-> DefaultName(k - 1),
       volume |-> DefaultVolume, color |-> DefaultColor,
       isPaused |-> FALSE, activeInstances |-> 0]] :
   paths \in [1..NumButtons -> {LibPath}]}

Init ==
  /\ now = 0
  /\ engInst = EmptyMap
  /\ engNextId = 1
  /\ chanProgress = EmptyBag
  /\ chanFinished = {}
  /\ cmds = EmptyBag
  /\ buttons \in InitButtons
  /\ activeProgresses = EmptyMap
  /\ seekingInstanceId = None
  /\ seekRecovery = EmptyMap
  /\ localSeekValue = NullValue
  /\ wasPlayingBeforeSeek = EmptyMap
  /\ pointerDown = None
  /\ lastAct = "step"
  /\ seekT = [i \in InstIds |-> NullValue]
  /\ lastAcc = [i \in InstIds |-> NullValue]
  /\ removedIds = {}
  /\ used = [emits |-> 0, plays |-> 0, stops |-> 0, stopAlls |-> 0, gestures |-> 0,
             toggles |-> 0, edits |-> 0, files |-> 0, restarts |-> 0]
  /\ settings = InitSettings
  /\ disk = NoDisk
  /\ engDevice = DefaultDevice
  /\ library = {LibPath}
  /\ preloaded = PagePaths(buttons, settings)
  /\ lastDrop = NoDrop

\* Playback bookkeeping: play, stop, stop all, natural completion, telemetry
Next ==
  \/ Tick
  \/ \E i \in InstIds : EmitProgress(i)
  \/ \E c \in Pending : EnginePlay(c)
  \/ \E c \in Pending : EngineStop(c)
  \/ \E c \in Pending : EngineStopAll(c)
  \/ \E c \in Pending : EngineReject(c)
  \/ \E payload \in BagToSet(chanProgress) : DeliverProgress(payload)
  \/ \E i \in InstIds : DeliverFinished(i)
  \/ \E b \in ButtonIds : PlaySound(b)
  \/ \E c \in Pending : PlaySoundDone(c)
  \/ \E i \in InstIds : StopInstance(i)
  \/ \E c \in Pending : StopInstanceDone(c)
  \/ StopAll
  \/ \E c \in Pending : StopAllDone(c)

Spec == Init /\ [][Next]_vars

\* Stop all: plays, pause, telemetry and stopAll
NextStopAll ==
  \/ \E i \in InstIds : EmitProgress(i)
  \/ \E c \in Pending : EnginePlay(c)
  \/ \E c \in Pending : EngineStopAll(c)
  \/ \E c \in Pending : EngineReject(c)
  \/ \E payload \in BagToSet(chanProgress) : DeliverProgress(payload)
  \/ \E b \in ButtonIds : PlaySound(b)
  \/ \E c \in Pending : PlaySoundDone(c)
  \/ StopAll
  \/ \E c \in Pending : StopAllDone(c)
  \/ \E i \in InstIds : TogglePauseInstance(i)
  \/ \E c \in Pending : EngineTogglePause(c)
  \/ \E c \in Pending : TogglePauseDone(c)

SpecStopAll == Init /\ [][NextStopAll]_vars

\* Seek reconciliation: one instance that playSound has started and whose
\* first snapshot has been accepted; seek gestures, pause, telemetry, display
InitSeek ==
  /\ now = 0
  /\ engInst = MapSet(EmptyMap, 1, [key |-> IdToString(0), cursor |-> 0, paused |-> FALSE,
                                    volume |-> DefaultVolume, name |-> DefaultName(0)])
  /\ engNextId = 2
  /\ chanProgress = EmptyBag
  /\ chanFinished = {}
  /\ cmds = EmptyBag
  /\ buttons = [k \in 1..NumButtons |->
                  [id |-> k - 1, path |-> LibPath, name |-> DefaultName(k - 1),
                   volume |-> DefaultVolume, color |-> DefaultColor, isPaused |-> FALSE,
                   activeInstances |-> IF k = 1 THEN 1 ELSE 0]]
  /\ activeProgresses =
       MapSet(EmptyMap, 1,
              [id |-> IdToString(0), instance_id |-> 1, position_ms |-> 0,
               duration_ms |-> Duration, is_paused |-> FALSE,
               last_sync_time |-> 0, last_sync_pos |-> 0])
  /\ seekingInstanceId = None
  /\ seekRecovery = EmptyMap
  /\ localSeekValue = NullValue
  /\ wasPlayingBeforeSeek = EmptyMap
  /\ pointerDown = None
  /\ lastAct = "step"
  /\ seekT = [i \in InstIds |-> NullValue]
  /\ lastAcc = [i \in InstIds |-> NullValue]
  /\ removedIds = {}
  /\ used = [emits |-> 0, plays |-> 1, stops |-> 0, stopAlls |-> 0, gestures |-> 0,
             toggles |-> 0, edits |-> 0, files |-> 0, restarts |-> 0]
  /\ settings = InitSettings
  /\ disk = NoDisk
  /\ engDevice = DefaultDevice
  /\ library = {LibPath}
  /\ preloaded = PagePaths(buttons, settings)
  /\ lastDrop = NoDrop

NextSeek ==
  \/ Tick
  \/ \E i \in InstIds : EmitProgress(i)
  \/ \E c \in Pending : EngineTogglePause(c)
  \/ \E c \in Pending : EngineSeek(c)
  \/ \E c \in Pending : EngineReject(c)
  \/ \E payload \in BagToSet(chanProgress) : DeliverProgress(payload)
  \/ \E i \in InstIds : DeliverFinished(i)
  \/ AnimationTick
  \/ \E c \in Pending : TogglePauseDone(c)
  \/ \E i \in InstIds : HandleSeekStart(i)
  \/ \E i \in InstIds, v \in SeekValues : HandleSeek(i, v)
  \/ \E i \in InstIds : HandleSeekEnd(i)
  \/ \E c \in Pending : HandleSeekEndDone(c)
  \/ AbandonGesture

SpecSeek == InitSeek /\ [][NextSeek]_vars

\* Pause: one registered playing instance; pause clicks, telemetry, display
NextPause ==
  \/ Tick
  \/ \E i \in InstIds : EmitProgress(i)
  \/ \E c \in Pending : EngineTogglePause(c)
  \/ \E payload \in BagToSet(chanProgress) : DeliverProgress(payload)
  \/ \E i \in InstIds : DeliverFinished(i)
  \/ AnimationTick
  \/ \E i \in InstIds : TogglePauseInstance(i)
  \/ \E c \in Pending : TogglePauseDone(c)

SpecPause == InitSeek /\ [][NextPause]_vars

\* No command is in flight
Idle == cmds = EmptyBag

\* Layered playback: one registered playing instance, further plays of the
\* same button and every per-instance operation; the user acts when no command
\* is in flight
NextLayered ==
  \/ Tick
  \/ \E i \in InstIds : EmitProgress(i)
  \/ \E c \in Pending : EnginePlay(c)
  \/ \E c \in Pending : EngineTogglePause(c)
  \/ \E c \in Pending : EngineStop(c)
  \/ \E c \in Pending : EngineSeek(c)
  \/ \E payload \in BagToSet(chanProgress) : DeliverProgress(payload)
  \/ \E i \in InstIds : DeliverFinished(i)
  \/ Idle /\ PlaySound(0)
  \/ \E c \in Pending : PlaySoundDone(c)
  \/ Idle /\ \E i \in InstIds : TogglePauseInstance(i)
  \/ \E c \in Pending : TogglePauseDone(c)
  \/ Idle /\ \E i \in InstIds : StopInstance(i)
  \/ \E c \in Pending : StopInstanceDone(c)
  \/ Idle /\ \E i \in InstIds : HandleSeekStart(i)
  \/ \E i \in InstIds : HandleSeek(i, StepMs)
  \/ \E i \in InstIds : HandleSeekEnd(i)
  \/ \E c \in Pending : HandleSeekEndDone(c)
  \/ AbandonGesture

SpecLayered == InitSeek /\ [][NextLayered]_vars

\* A grid of InitTotalPages pages whose buttons all have a sound; the last
\* button has started instance 1, which is playing and shown in the queue;
\* the first page is shown
InitPages ==
  /\ now = 0
  /\ engInst = MapSet(EmptyMap, 1,
                      [key |-> IdToString(ItemsPerPage * InitTotalPages - 1), cursor |-> 0,
                       paused |-> FALSE, volume |-> DefaultVolume,
                       name |-> DefaultName(ItemsPerPage * InitTotalPages - 1)])
  /\ engNextId = 2
  /\ chanProgress = EmptyBag
  /\ chanFinished = {}
  /\ cmds = EmptyBag
  /\ buttons = [k \in 1..(ItemsPerPage * InitTotalPages) |->
                  [NewButton(k - 1) EXCEPT
                     !.path = IF k = 1 THEN LibPath ELSE LibPath2,
                     !.activeInstances = IF k = ItemsPerPage * InitTotalPages THEN 1 ELSE 0]]
  /\ activeProgresses =
       MapSet(EmptyMap, 1,
              [id |-> IdToString(ItemsPerPage * InitTotalPages - 1), instance_id |-> 1,
               position_ms |-> 0, duration_ms |-> Duration, is_paused |-> FALSE,
               last_sync_time |-> 0, last_sync_pos |-> 0])
  /\ seekingInstanceId = None
  /\ seekRecovery = EmptyMap
  /\ localSeekValue = NullValue
  /\ wasPlayingBeforeSeek = EmptyMap
  /\ pointerDown = None
  /\ lastAct = "step"
  /\ seekT = [i \in InstIds |-> NullValue]
  /\ lastAcc = [i \in InstIds |-> NullValue]
  /\ removedIds = {}
  /\ used = [emits |-> 0, plays |-> 1, stops |-> 0, stopAlls |-> 0, gestures |-> 0,
             toggles |-> 0, edits |-> 0, files |-> 0, restarts |-> 0]
  /\ settings = InitSettings
  /\ disk = NoDisk
  /\ engDevice = DefaultDevice
  /\ library = LibPaths
  /\ preloaded = PagePaths(buttons, settings)
  /\ lastDrop = NoDrop

\* Pages: pages are added, shown and removed while an instance plays
NextPages ==
  \/ \E c \in Pending : EngineStop(c)
  \/ NextPage
  \/ PrevPage
  \/ \E p \in -1..MaxPages : SetPage(p)
  \/ \E c \in Pending, ok \in BOOLEAN : EnginePreload(c, ok)
  \/ AddPage
  \/ RemoveCurrentPage
  \/ RemovePageStart
  \/ \E c \in Pending : RemovePageDone(c)
  \/ \E c \in Pending, ok \in BOOLEAN : EngineDeleteFile(c, ok)
  \/ \E c \in Pending : DeleteDone(c)
  \/ \E c \in Pending : SaveSettingsRun(c, TRUE)

SpecPages == InitPages /\ [][NextPages]_vars

\* Telemetry that never stops: a snapshot of an active instance is emitted
\* whenever the same snapshot is not already waiting to be delivered
EmitFresh(i) ==
  /\ i \in DOMAIN engInst
  /\ CopiesIn(Snapshot(i), chanProgress) = 0
  /\ chanProgress' = chanProgress (+) SetToBag({Snapshot(i)})
  /\ lastAct' = "step"
  /\ UNCHANGED <<now, engInst, engNextId, chanFinished, cmds, storeVars, appVars,
                 histVars, used, cfgVars>>

\* The store and the engine once a first seek gesture on the playing instance
\* 1 has moved it to StepMs and has ended: the instance plays from StepMs,
\* the target StepMs is recorded and no snapshot has been delivered since
InitReconcile ==
  /\ now = 0
  /\ engInst = MapSet(EmptyMap, 1, [key |-> IdToString(0), cursor |-> StepMs,
                                    paused |-> FALSE, volume |-> DefaultVolume,
                                    name |-> DefaultName(0)])
  /\ engNextId = 2
  /\ chanProgress = EmptyBag
  /\ chanFinished = {}
  /\ cmds = EmptyBag
  /\ buttons = [k \in 1..NumButtons |->
                  [id |-> k - 1, path |-> LibPath, name |-> DefaultName(k - 1),
                   volume |-> DefaultVolume, color |-> DefaultColor, isPaused |-> FALSE,
                   activeInstances |-> IF k = 1 THEN 1 ELSE 0]]
  /\ activeProgresses =
       MapSet(EmptyMap, 1,
              [id |-> IdToString(0), instance_id |-> 1, position_ms |-> StepMs,
               duration_ms |-> Duration, is_paused |-> FALSE,
               last_sync_time |-> 0, last_sync_pos |-> 0])
  /\ seekingInstanceId = None
  /\ seekRecovery = MapSet(EmptyMap, 1, StepMs)
  /\ localSeekValue = NullValue
  /\ wasPlayingBeforeSeek = EmptyMap
  /\ pointerDown = None
  /\ lastAct = "step"
  /\ seekT = [i \in InstIds |-> IF i = 1 THEN StepMs ELSE NullValue]
  /\ lastAcc = [i \in InstIds |-> NullValue]
  /\ removedIds = {}
  /\ used = [emits |-> 0, plays |-> 1, stops |-> 0, stopAlls |-> 0, gestures |-> 0,
             toggles |-> 0, edits |-> 0, files |-> 0, restarts |-> 0]
  /\ settings = InitSettings
  /\ disk = NoDisk
  /\ engDevice = DefaultDevice
  /\ library = {LibPath}
  /\ preloaded = PagePaths(buttons, settings)
  /\ lastDrop = NoDrop

\* Reconciliation after a seek: telemetry without end, a further gesture
NextReconcile ==
  \/ Tick
  \/ \E i \in InstIds : EmitFresh(i)
  \/ \E c \in Pending : EngineTogglePause(c)
  \/ \E c \in Pending : EngineSeek(c)
  \/ \E c \in Pending : EngineReject(c)
  \/ \E payload \in BagToSet(chanProgress) : DeliverProgress(payload)
  \/ \E i \in InstIds : DeliverFinished(i)
  \/ \E c \in Pending : TogglePauseDone(c)
  \/ \E i \in InstIds : HandleSeekStart(i)
  \/ \E i \in InstIds, v \in SeekValues : HandleSeek(i, v)
  \/ \E i \in InstIds : HandleSeekEnd(i)
  \/ \E c \in Pending : HandleSeekEndDone(c)
  \/ AbandonGesture

\* Every emitted event is delivered, every command is answered, every answer
\* is handled, the engine keeps emitting and the pointer is released
FairReconcile ==
  /\ WF_vars(\E i \in InstIds : EmitFresh(i))
  /\ WF_vars(\E payload \in BagToSet(chanProgress) : DeliverProgress(payload))
  /\ WF_vars(\E i \in InstIds : DeliverFinished(i))
  /\ WF_vars(\E c \in Pending : EngineTogglePause(c))
  /\ WF_vars(\E c \in Pending : EngineSeek(c) \/ EngineReject(c))
  /\ WF_vars(\E c \in Pending : TogglePauseDone(c))
  /\ WF_vars(\E c \in Pending : HandleSeekEndDone(c))
  /\ WF_vars(\E i \in InstIds : HandleSeekEnd(i))
  /\ WF_vars(AbandonGesture)
  /\ WF_vars(Tick)

SpecReconcile == InitReconcile /\ [][NextReconcile]_vars /\ FairReconcile

\* Counters and volumes: one registered playing instance; plays that succeed
\* or fail, stops, stop-all, volume changes and resets of the buttons
NextPlay ==
  \/ Tick
  \/ \E c \in Pending : EnginePlay(c)
  \/ \E c \in Pending : EngineStop(c)
  \/ \E c \in Pending : EngineStopAll(c)
  \/ \E c \in Pending : EngineReject(c)
  \/ \E i \in InstIds : DeliverFinished(i)
  \/ PlaySound(0)
  \/ \E c \in Pending : PlaySoundDone(c)
  \/ \E i \in InstIds : StopInstance(i)
  \/ \E c \in Pending : StopInstanceDone(c)
  \/ StopAll
  \/ \E c \in Pending : StopAllDone(c)
  \/ HandleVolumeChange(0, FullVolume)
  \/ Reset(0)
  \/ \E c \in Pending, ok \in BOOLEAN : EngineDeleteFile(c, ok)
  \/ \E c \in Pending : ResetDone(c)
  \/ \E c \in Pending : SaveSettingsRun(c, TRUE)

SpecPlay == InitSeek /\ [][NextPlay]_vars

\* The store after init() on a first start: an empty grid, no settings file,
\* nothing playing
InitStore ==
  /\ now = 0
  /\ engInst = EmptyMap
  /\ engNextId = 1
  /\ chanProgress = EmptyBag
  /\ chanFinished = {}
  /\ cmds = EmptyBag
  /\ buttons = [k \in 1..(ItemsPerPage * InitTotalPages) |-> NewButton(k - 1)]
  /\ activeProgresses = EmptyMap
  /\ seekingInstanceId = None
  /\ seekRecovery = EmptyMap
  /\ localSeekValue = NullValue
  /\ wasPlayingBeforeSeek = EmptyMap
  /\ pointerDown = None
  /\ lastAct = "step"
  /\ seekT = [i \in InstIds |-> NullValue]
  /\ lastAcc = [i \in InstIds |-> NullValue]
  /\ removedIds = {}
  /\ used = [emits |-> 0, plays |-> 0, stops |-> 0, stopAlls |-> 0, gestures |-> 0,
             toggles |-> 0, edits |-> 0, files |-> 0, restarts |-> 0]
  /\ settings = InitSettings
  /\ disk = NoDisk
  /\ engDevice = DefaultDevice
  /\ library = {}
  /\ preloaded = PagePaths(buttons, settings)
  /\ lastDrop = NoDrop

\* The inputs of the handlers
GridIds == 0..(ItemsPerPage * MaxPages - 1)
Volumes == {0, FullVolume}
Devices == {DefaultDevice, "Speakers"}
DroppedNames == {NoName, <<"drop", 0>>}

\* Volume and output device
NextDevice ==
  \/ \E id \in GridIds, v \in Volumes : HandleVolumeChange(id, v)
  \/ \E v \in Volumes : SetMasterVolume(v)
  \/ \E c \in Pending, ok \in BOOLEAN : EngineMasterVolume(c, ok)
  \/ \E c \in Pending : SetMasterVolumeDone(c)
  \/ \E d \in Devices : SetOutputDevice(d)
  \/ \E c \in Pending, ok \in BOOLEAN : EngineSetDevice(c, ok)
  \/ \E c \in Pending : SetOutputDeviceDone(c)
  \/ \E c \in Pending, ok \in BOOLEAN : SaveSettingsRun(c, ok)

SpecDevice == InitStore /\ [][NextDevice]_vars

\* Library: import, reset, pages
NextLibrary ==
  \/ \E id \in GridIds, n \in DroppedNames : UpdateButtonWithCopy(id, ExtPath, n)
  \/ \E c \in Pending : EngineSaveFile(c)
  \/ \E c \in Pending : UpdateButtonWithCopyDone(c)
  \/ \E id \in GridIds : Reset(id)
  \/ \E c \in Pending, ok \in BOOLEAN : EngineDeleteFile(c, ok)
  \/ \E c \in Pending : ResetDone(c)
  \/ NextPage
  \/ PrevPage
  \/ \E p \in -1..MaxPages : SetPage(p)
  \/ \E c \in Pending, ok \in BOOLEAN : EnginePreload(c, ok)
  \/ AddPage
  \/ RemoveCurrentPage
  \/ \E c \in Pending : DeleteDone(c)
  \/ \E c \in Pending, ok \in BOOLEAN : SaveSettingsRun(c, ok)

SpecLibrary == InitStore /\ [][NextLibrary]_vars

\* Pause Latest / Resume Latest: a second instance of the first button is
\* started and the latest one is paused and resumed from the button's menu,
\* while the telemetry reports both
NextLatest ==
  \/ \E i \in InstIds : EmitFresh(i)
  \/ \E c \in Pending : EnginePlay(c)
  \/ \E c \in Pending : EngineTogglePause(c)
  \/ \E payload \in BagToSet(chanProgress) : DeliverProgress(payload)
  \/ PlaySound(0)
  \/ \E c \in Pending : PlaySoundDone(c)
  \/ \E id \in ButtonIds : TogglePauseLatest(id)
  \/ \E c \in Pending : TogglePauseDone(c)

SpecLatest == InitSeek /\ [][NextLatest]_vars

\* Sizes of the grid on the screen, and drop points on it and next to it
Sides == (MaxSide - 1)..MaxSide

\* Drops: files dropped on the grid of the first page and of the second,
\* one drop being handled before the next
NextDrop ==
  \/ Idle /\ \E w \in Sides, h \in Sides, x \in -1..(MaxSide + 1), y \in -1..(MaxSide + 1) :
       FileDropped(w, h, x, y, ExtPath)
  \/ \E c \in Pending : EngineSaveFile(c)
  \/ \E c \in Pending : UpdateButtonWithCopyDone(c)
  \/ NextPage
  \/ PrevPage
  \/ \E c \in Pending, ok \in BOOLEAN : EnginePreload(c, ok)
  \/ \E c \in Pending : SaveSettingsRun(c, TRUE)

SpecDrop == InitStore /\ [][NextDrop]_vars

\* Persistence: edits of the settings, saves, and a restart that loads them;
\* set_master_volume answers ok, as the command table says, and the
\* user acts when no command is in flight
NextSettings ==
  \/ Idle /\ SetReducedMotion(TRUE)
  \/ Idle /\ SetAccentColor("Indigo")
  \/ Idle /\ SetTitlebarStyle("mac")
  \/ Idle /\ SetControlsSide("left")
  \/ Idle /\ UpdatePageName(0, <<"Intro", 0>>)
  \/ Idle /\ HandleRename(0, <<"Kick", 0>>)
  \/ Idle /\ HandleVolumeChange(0, 0)
  \/ Idle /\ SetMasterVolume(0)
  \/ \E c \in Pending : EngineMasterVolume(c, TRUE)
  \/ \E c \in Pending : SetMasterVolumeDone(c)
  \/ Idle /\ SetOutputDevice("Speakers")
  \/ \E c \in Pending, ok \in BOOLEAN : EngineSetDevice(c, ok)
  \/ \E c \in Pending : SetOutputDeviceDone(c)
  \/ Idle /\ UpdateButtonWithCopy(0, ExtPath, NoName)
  \/ \E c \in Pending : EngineSaveFile(c)
  \/ \E c \in Pending : UpdateButtonWithCopyDone(c)
  \/ Idle /\ AddPage
  \/ \E c \in Pending, ok \in BOOLEAN : SaveSettingsRun(c, ok)
  \/ Idle /\ Restart
  \/ \E c \in Pending, ok \in BOOLEAN : EnginePreload(c, ok)
  \/ \E c \in Pending : LoadVolumeDone(c)

SpecSettings == InitStore /\ [][NextSettings]_vars

\* ------------------------------------------------------------ properties
\* The payload has been applied to the entry of its instance
Applied(payload) ==
  LET i == payload.instance_id
  IN  /\ i \in DOMAIN activeProgresses'
      /\ activeProgresses'[i].last_sync_pos = payload.position_ms
      /\ activeProgresses'[i].last_sync_time = now
      /\ activeProgresses'[i].is_paused = payload.is_paused
      /\ activeProgresses'[i].duration_ms = payload.duration_ms

\* C1: once handleSeekEnd has set the displayed position of a playing instance
\* to the seek target t, the displayed position_ms never decreases and never
\* drops below t - 100, until the next seek, pause or removal.
C1_DisplayedPositionMonotone ==
  [][\A i \in InstIds :
       ( /\ seekT[i] # NullValue /\ seekT'[i] = seekT[i]
         /\ i \in DOMAIN activeProgresses /\ i \in DOMAIN activeProgresses'
         /\ ~activeProgresses[i].is_paused /\ ~activeProgresses'[i].is_paused )
       => /\ activeProgresses'[i].position_ms >= activeProgresses[i].position_ms
          /\ activeProgresses'[i].position_ms >= seekT[i] - Tolerance]_vars

\* C2: after a seek to t has completed, every snapshot the listener accepts for
\* that instance has position_ms >= t - 100.
C2_AcceptedNotBelowTarget ==
  \A i \in InstIds :
    (seekT[i] # NullValue /\ lastAcc[i] # NullValue) => lastAcc[i] >= seekT[i] - Tolerance

\* C3: the snapshots accepted after a seek has completed have non-decreasing
\* position_ms.
C3_AcceptedMonotone ==
  [][\A i \in InstIds :
       ( /\ seekT[i] # NullValue /\ seekT'[i] = seekT[i]
         /\ lastAcc[i] # NullValue /\ lastAcc'[i] # NullValue )
       => lastAcc'[i] >= lastAcc[i]]_vars

\* C4: while a recovery target T is recorded for an instance, a snapshot for it
\* with position_ms < T - 100 changes neither activeProgresses nor the buttons
\* and leaves the target recorded.
C4_StaleSnapshotDiscarded ==
  [][\A payload \in BagToSet(chanProgress) :
       ( /\ DeliverProgress(payload)
         /\ payload.instance_id \in DOMAIN seekRecovery
         /\ payload.position_ms < seekRecovery[payload.instance_id] - Tolerance )
       => /\ activeProgresses' = activeProgresses
          /\ buttons' = buttons
          /\ seekRecovery' = seekRecovery]_vars

C4_Witness ==
  /\ lastAct = "progressDiscard"
  /\ \E i \in DOMAIN seekRecovery :
       i \in DOMAIN activeProgresses /\ seekingInstanceId # i

\* C5: with no drag in progress, a snapshot with position_ms >= T - 100 removes
\* the recorded target T and is applied in the same step; a snapshot for an
\* instance without a target is applied whatever its position; and only
\* handleSeekEnd records a target.
C5_TargetClearedAndApplied ==
  [][/\ \A payload \in BagToSet(chanProgress) :
          LET i == payload.instance_id
          IN  ( /\ DeliverProgress(payload)
                /\ seekingInstanceId # i
                /\ \/ i \notin DOMAIN seekRecovery
                   \/ payload.position_ms >= seekRecovery[i] - Tolerance )
              => (i \notin DOMAIN seekRecovery' /\ Applied(payload))
     /\ \A i \in InstIds :
          (i \notin DOMAIN seekRecovery /\ i \in DOMAIN seekRecovery')
          => HandleSeekEnd(i)]_vars

C5_Witness ==
  /\ lastAct = "progressClear"
  /\ \E i \in DOMAIN activeProgresses :
       /\ i \notin DOMAIN seekRecovery
       /\ seekT[i] # NullValue
       /\ lastAcc[i] # NullValue /\ lastAcc[i] >= seekT[i] - Tolerance

\* The number of commands in flight that are c, whatever has become of the
\* object the handler holds
SameCommand(bag, c) ==
  BagSum(bag, {d \in BagToSet(bag) : [d EXCEPT !.item = "none"] = [c EXCEPT !.item = "none"]})

\* C6: handleSeekEnd records the recovery target before it issues
\* seek_instance: in the step that sends the command the target of that
\* instance is the position sent.
C6_TargetRecordedBeforeSeek ==
  [][\A c \in BagToSet(cmds') :
       ( /\ c.op = "seek_instance" /\ c.st = "sent"
         /\ SameCommand(cmds', c) > SameCommand(cmds, c) )
       => /\ c.inst \in DOMAIN seekRecovery'
          /\ seekRecovery'[c.inst] = c.pos]_vars

C6_Witness ==
  /\ lastAct = "handleSeekEnd"
  /\ \E c \in Pending :
       /\ c.op = "seek_instance" /\ c.st = "sent"
       /\ c.inst \in DOMAIN seekRecovery /\ seekRecovery[c.inst] = c.pos

\* No command is in flight and no event is undelivered
Quiescent ==
  /\ cmds = EmptyBag
  /\ chanProgress = EmptyBag
  /\ chanFinished = {}

\* The engine-active instances that were started from the button with this id
EngineActive(id) == {i \in DOMAIN engInst : engInst[i].key = IdToString(id)}

\* C7: in every quiescent state each button's activeInstances equals the number
\* of engine-active instances started from that button.
C7_CounterMatchesEngine ==
  Quiescent =>
    \A k \in 1..Len(buttons) :
      buttons[k].activeInstances = Cardinality(EngineActive(buttons[k].id))

\* C8: an instance id that has been removed from activeProgresses is absent
\* from it in every later state.
C8_RemovedStaysRemoved ==
  removedIds \cap DOMAIN activeProgresses = {}

\* C9: when stop_all succeeds, right after stopAll returns activeProgresses is
\* empty and every button has activeInstances = 0 and isPaused = false; when
\* it fails, activeProgresses and the buttons are unchanged.
C9_StopAllResult ==
  [][\A c \in Pending :
       StopAllDone(c) =>
         IF c.st = "ok"
         THEN /\ activeProgresses' = EmptyMap
              /\ Len(buttons') = Len(buttons)
              /\ \A k \in 1..Len(buttons') :
                   /\ buttons'[k].activeInstances = 0
                   /\ buttons'[k].isPaused = FALSE
                   /\ buttons'[k].id = buttons[k].id
                   /\ buttons'[k].path = buttons[k].path
         ELSE /\ activeProgresses' = activeProgresses
              /\ buttons' = buttons]_vars

C9_Witness ==
  /\ lastAct = "stopAllOk"
  /\ Cardinality(removedIds) >= 2
  /\ activeProgresses = EmptyMap
  /\ \A k \in 1..Len(buttons) : buttons[k].activeInstances = 0

\* C10: when play_sound succeeds, the new instance is in activeProgresses with
\* position_ms = 0 and is_paused = false as soon as playSound has completed,
\* under an id no other entry has had.
C10_PlayRegistersInstance ==
  [][\A c \in Pending :
       (PlaySoundDone(c) /\ c.st = "ok")
       => /\ c.retId \in DOMAIN activeProgresses'
          /\ c.retId \notin removedIds
          /\ activeProgresses'[c.retId].position_ms = 0
          /\ activeProgresses'[c.retId].is_paused = FALSE]_vars

\* C11: an animation tick sets the position_ms of every entry that is neither
\* paused nor being dragged to min(duration_ms, last_sync_pos + (now -
\* last_sync_time)) and leaves the position_ms of every paused entry unchanged.
C11_AnimationTickProjects ==
  [][AnimationTick =>
       /\ DOMAIN activeProgresses' = DOMAIN activeProgresses
       /\ \A i \in DOMAIN activeProgresses :
            LET p == activeProgresses[i]
                q == activeProgresses'[i]
            IN  /\ (~p.is_paused /\ seekingInstanceId # i)
                     => q.position_ms =
                          Min(p.duration_ms, p.last_sync_pos + (now - p.last_sync_time))
                /\ p.is_paused => q.position_ms = p.position_ms]_vars

C11_Witness ==
  /\ lastAct = "animationTick"
  /\ \E i \in DOMAIN activeProgresses :
       LET p == activeProgresses[i]
       IN  /\ ~p.is_paused /\ seekingInstanceId # i
           /\ now > p.last_sync_time
           /\ p.last_sync_pos + (now - p.last_sync_time) > p.duration_ms
           /\ p.position_ms = p.duration_ms

\* The instance is paused in the engine and togglePauseInstance has received
\* the answer of every toggle the engine has processed: the last flag received
\* was true and no later toggle has succeeded
PauseAcknowledged(i) ==
  /\ i \in DOMAIN engInst /\ engInst[i].paused
  /\ \A c \in Pending : ~(c.op = "toggle_pause_instance" /\ c.inst = i /\ c.st = "ok")

\* C12: from the state in which togglePauseInstance receives the flag true
\* until the next successful toggle, the displayed position_ms and duration_ms
\* of the instance do not change, whatever snapshots are delivered and however
\* many animation ticks run.
C12_PausedPositionFrozen ==
  [][\A i \in InstIds :
       ( /\ PauseAcknowledged(i) /\ PauseAcknowledged(i)'
         /\ i \in DOMAIN activeProgresses /\ i \in DOMAIN activeProgresses' )
       => /\ activeProgresses'[i].position_ms = activeProgresses[i].position_ms
          /\ activeProgresses'[i].duration_ms = activeProgresses[i].duration_ms]_vars

\* An operation on instance i takes a step: stopInstance, togglePauseInstance,
\* a handler of the seek gesture, the audio-progress listener with a snapshot
\* of i, or the audio-finished listener
Touches(i) ==
  \/ StopInstance(i)
  \/ TogglePauseInstance(i)
  \/ HandleSeekStart(i)
  \/ \E v \in SeekValues : HandleSeek(i, v)
  \/ HandleSeekEnd(i)
  \/ DeliverFinished(i)
  \/ \E c \in Pending :
       c.inst = i /\ (StopInstanceDone(c) \/ TogglePauseDone(c) \/ HandleSeekEndDone(c))
  \/ \E payload \in BagToSet(chanProgress) :
       payload.instance_id = i /\ DeliverProgress(payload)

\* C13: instances of one button are tracked independently: an operation on one
\* instance_id leaves the entry of every other instance_id unchanged; every
\* playSound adds one to the button's activeInstances, and an accepted snapshot
\* of an instance without an entry adds an entry under its own instance_id.
C13_InstancesIndependent ==
  [][/\ \A i \in InstIds :
          Touches(i) =>
            \A j \in (DOMAIN activeProgresses) \ {i} :
              j \in DOMAIN activeProgresses' /\ activeProgresses'[j] = activeProgresses[j]
     /\ \A b \in ButtonIds :
          PlaySound(b) =>
            /\ activeProgresses' = activeProgresses
            /\ buttons'[FindButton(buttons, b)].activeInstances =
                 buttons[FindButton(buttons, b)].activeInstances + 1
     /\ \A payload \in BagToSet(chanProgress) :
          ( /\ DeliverProgress(payload)
            /\ payload.instance_id \notin DOMAIN activeProgresses
            /\ payload.instance_id \in DOMAIN activeProgresses' )
          => /\ DOMAIN activeProgresses' =
                  DOMAIN activeProgresses \cup {payload.instance_id}
             /\ activeProgresses'[payload.instance_id].instance_id = payload.instance_id
             /\ activeProgresses'[payload.instance_id].id = payload.id]_vars

C13_Witness ==
  \E i, j \in DOMAIN activeProgresses :
    /\ i # j
    /\ activeProgresses[i].id = activeProgresses[j].id
    /\ activeProgresses[i].is_paused /\ ~activeProgresses[j].is_paused
    /\ FindButtonByKey(buttons, activeProgresses[i].id) # 0
    /\ buttons[FindButtonByKey(buttons, activeProgresses[i].id)].activeInstances = 2
    /\ buttons[FindButtonByKey(buttons, activeProgresses[i].id)].activeInstances = 2

\* C14: setMasterVolume(v), for every v including 0 and whether the command
\* succeeds or fails, leaves the stored volume of every button unchanged.
C14_MasterVolumeKeepsButtonVolumes ==
  [][((\E v \in Volumes : SetMasterVolume(v)) \/ (\E c \in Pending : SetMasterVolumeDone(c)))
       => /\ Len(buttons') = Len(buttons)
          /\ \A k \in 1..Len(buttons) : buttons'[k].volume = buttons[k].volume]_vars

C14_Witness ==
  /\ lastAct = "masterVolumeErr"
  /\ settings.masterVolume = 0
  /\ \E k \in 1..Len(buttons) : buttons[k].volume = FullVolume

\* C15: when set_audio_device fails, setOutputDevice leaves currentDevice at
\* its previous value and does not call saveSettings.
C15_FailedDeviceKeepsCurrent ==
  [][\A c \in Pending :
       (SetOutputDeviceDone(c) /\ c.st = "err")
       => /\ settings'.currentDevice = settings.currentDevice
          /\ cmds' = Drop(cmds, c)
          /\ disk' = disk]_vars

C15_Witness ==
  /\ lastAct = "deviceErr"
  /\ settings.currentDevice # DefaultDevice
  /\ settings.currentDevice = engDevice

\* C16: whenever no set_audio_device command is in flight, currentDevice is
\* the device the engine last switched to successfully.
C16_DeviceMatchesEngine ==
  (\A c \in Pending : c.op # "set_audio_device") => settings.currentDevice = engDevice

\* The button has the values reset gives it
IsReset(button, id) ==
  /\ button.path = NoPath
  /\ button.name = DefaultName(id)
  /\ button.volume = DefaultVolume
  /\ button.activeInstances = 0
  /\ button.isPaused = FALSE

\* C17: a failure of delete_sound_file never blocks the bookkeeping: reset
\* ends with path = null, the default name, volume 0.5, activeInstances 0 and
\* isPaused false, and removeCurrentPage removes the page, whether each delete
\* succeeds or fails; the answer of a delete changes neither grid nor settings.
C17_DeleteFailureNeverBlocks ==
  [][/\ \A c \in Pending :
          (ResetDone(c) /\ FindButton(buttons, c.id) # 0)
          => IsReset(buttons'[FindButton(buttons, c.id)], c.id)
     /\ RemoveCurrentPage
          => /\ settings'.totalPages = settings.totalPages - 1
             /\ Len(settings'.pageNames) = Len(settings.pageNames) - 1
             /\ Len(buttons') = Len(buttons) - ItemsPerPage
     /\ \A c \in Pending :
          DeleteDone(c) => (buttons' = buttons /\ settings' = settings)]_vars

C17_Witness ==
  /\ lastAct = "resetDeleteFailed"
  /\ \E k \in 1..Len(buttons) :
       IsReset(buttons[k], buttons[k].id) /\ buttons[k].id + 1 = k

\* C18: delete_sound_file is only invoked with a path that save_sound_file
\* has returned.
C18_DeleteOnlyLibraryPaths ==
  \A c \in Pending : c.op = "delete_sound_file" => c.path \in library

\* C19: each button's path is null or a path that save_sound_file has
\* returned.
C19_ButtonPathsInLibrary ==
  \A k \in 1..Len(buttons) : buttons[k].path \in library \cup {NoPath}

\* The store holds what store.bin holds, the output device aside
RestoredButDevice ==
  /\ Len(buttons) = Len(disk.buttons)
  /\ \A k \in 1..Len(buttons) :
       /\ SavedButton(buttons[k]) = disk.buttons[k]
       /\ buttons[k].activeInstances = 0
       /\ buttons[k].isPaused = FALSE
  /\ settings.masterVolume = disk.masterVolume
  /\ settings.totalPages = disk.totalPages
  /\ settings.pageNames = disk.pageNames
  /\ settings.reducedMotion = disk.reducedMotion
  /\ settings.accentColor = disk.accentColor
  /\ settings.titlebarStyle = disk.titlebarStyle
  /\ settings.controlsSide = disk.controlsSide

\* The store holds what store.bin holds
Restored == RestoredButDevice /\ settings.currentDevice = disk.currentDevice

\* Nothing but loadSettings has written the store since the start
LoadUndisturbed ==
  /\ disk.present
  /\ disk' = disk
  /\ settings = LoadedSettings(InitSettings, disk)
  /\ buttons = LoadedButtons(disk, settings.totalPages)

\* C20: when loadSettings finishes on a fresh store, the store holds what
\* saveSettings wrote: every button's id, path, name, volume and color, and
\* masterVolume, totalPages, pageNames, reducedMotion, accentColor,
\* titlebarStyle, controlsSide and currentDevice; activeInstances is 0 and
\* isPaused is false.
C20_SettingsRoundTrip ==
  [][(lastAct' = "loaded" /\ LoadUndisturbed) => Restored']_vars

\* C20, amended: when loadSettings finishes on a fresh store, everything but
\* the output device is restored as saved; currentDevice is the saved device
\* when set_audio_device accepted it and stays "Default" when it was rejected.
C20_RoundTripUpToDevice ==
  [][(lastAct' = "loaded" /\ LoadUndisturbed) =>
       /\ RestoredButDevice'
       /\ \A c \in Pending :
            SetOutputDeviceDone(c) =>
              settings'.currentDevice =
                IF c.st = "ok" THEN disk.currentDevice ELSE DefaultDevice]_vars

C20_Witness ==
  /\ lastAct = "loaded"
  /\ Restored
  /\ disk.currentDevice # DefaultDevice
  /\ disk.masterVolume = 0

\* C21: a failed play is scoped to its request: when playSound ends in its
\* catch block, activeProgresses is unchanged and the counter of the button
\* that was played is taken back by one, so that the failed call leaves no
\* trace in later calls.
C21_FailedPlayScoped ==
  [][\A c \in Pending :
       (PlaySoundDone(c) /\ c.st = "err") =>
         /\ activeProgresses' = activeProgresses
         /\ LET k == FindButtonByKey(buttons, c.key)
            IN  k # 0 => buttons'[k].activeInstances = buttons[k].activeInstances - 1]_vars

\* C22: at every mixed frame each running instance plays at the volume its
\* button has, and a volume change neither stops nor restarts an instance.
C22_VolumeReachesInstances ==
  [][/\ Tick =>
          \A i \in DOMAIN engInst' :
            LET k == FindButtonByKey(buttons, engInst'[i].key)
            IN  k # 0 => engInst'[i].volume = buttons[k].volume
     /\ \A v \in Volumes : HandleVolumeChange(0, v) => DOMAIN engInst' = DOMAIN engInst]_vars

\* C27: every button's activeInstances is >= 0.
C27_ActiveInstancesNonNegative ==
  \A k \in 1..Len(buttons) : buttons[k].activeInstances >= 0

\* C23: when seek_instance fails, the gesture still ends cleanly: after the
\* handler has seen the failure seekingInstanceId is null, localSeekValue is
\* cleared and no recovery target of the instance stays recorded.
C23_FailedSeekEndsGesture ==
  [][\A c \in Pending :
       (HandleSeekEndDone(c) /\ c.st = "err") =>
         /\ seekingInstanceId' = None
         /\ localSeekValue' = NullValue
         /\ c.inst \notin DOMAIN seekRecovery']_vars

\* The gesture on the instance that was playing at the start has ended,
\* every command has been answered and every answer handled
GestureOver ==
  /\ used.gestures > 0
  /\ pointerDown = None
  /\ seekingInstanceId = None
  /\ cmds = EmptyBag

\* C24: a seek gesture preserves the play state: the instance, playing when
\* handleSeekStart ran, is playing again in the engine once handleSeekEnd and
\* every command of the gesture have completed.
C24_GestureKeepsPlayState ==
  GestureOver => \A i \in DOMAIN engInst : ~engInst[i].paused

\* C25: once a seek of an instance has succeeded and its target is recorded,
\* if the engine keeps emitting snapshots and they are delivered, then
\* eventually the target is cleared by a snapshot that is applied, or the
\* instance leaves activeProgresses.
C25_ReconciliationEnds ==
  \A i \in InstIds :
    (seekT[i] # NullValue /\ i \in DOMAIN seekRecovery)
      ~> (i \notin DOMAIN seekRecovery \/ i \notin DOMAIN activeProgresses)

\* The state from which reconciliation is followed: a completed seek of the
\* playing instance 1 to StepMs, before any snapshot
AfterFirstSeek ==
  /\ now = 0
  /\ 1 \in DOMAIN engInst /\ engInst[1].cursor = StepMs /\ ~engInst[1].paused
  /\ chanProgress = EmptyBag /\ chanFinished = {} /\ cmds = EmptyBag
  /\ 1 \in DOMAIN activeProgresses
  /\ activeProgresses[1].position_ms = StepMs /\ ~activeProgresses[1].is_paused
  /\ activeProgresses[1].last_sync_time = 0 /\ activeProgresses[1].last_sync_pos = 0
  /\ seekingInstanceId = None /\ pointerDown = None /\ localSeekValue = NullValue
  /\ wasPlayingBeforeSeek = EmptyMap
  /\ seekRecovery = MapSet(EmptyMap, 1, StepMs)
  /\ seekT[1] = StepMs /\ lastAcc[1] = NullValue

\* C26: while seekingInstanceId is the id of an instance, neither a snapshot
\* nor an animation tick changes a field of that instance's entry, and a
\* snapshot for it clears no recovery target.
C26_DraggedEntryFrozen ==
  [][\A i \in DOMAIN activeProgresses :
       seekingInstanceId = i =>
         /\ AnimationTick =>
              (i \in DOMAIN activeProgresses' /\ activeProgresses'[i] = activeProgresses[i])
         /\ \A payload \in BagToSet(chanProgress) :
              DeliverProgress(payload) =>
                /\ i \in DOMAIN activeProgresses'
                /\ activeProgresses'[i] = activeProgresses[i]
                /\ payload.instance_id = i => seekRecovery' = seekRecovery]_vars

C26_Witness ==
  /\ lastAct = "progressDrag"
  /\ seekingInstanceId \in DOMAIN activeProgresses
  /\ seekingInstanceId \in DOMAIN seekRecovery
  /\ ~activeProgresses[seekingInstanceId].is_paused
  /\ now > activeProgresses[seekingInstanceId].last_sync_time

\* C28: every activeProgresses entry satisfies 0 <= position_ms <= duration_ms.
C28_PositionWithinDuration ==
  \A i \in DOMAIN activeProgresses :
    /\ 0 <= activeProgresses[i].position_ms
    /\ activeProgresses[i].position_ms <= activeProgresses[i].duration_ms

C28_Witness ==
  \E i \in DOMAIN activeProgresses :
    /\ seekT[i] = Duration
    /\ lastAcc[i] = Duration
    /\ activeProgresses[i].position_ms = activeProgresses[i].duration_ms

\* C29: for every instance shown in the queue, the button whose id is the
\* entry's source key is the button that started the instance: it has the
\* name the instance was started with.
C29_EntryKeyFindsItsButton ==
  \A i \in (DOMAIN activeProgresses) \cap (DOMAIN engInst) :
    LET k == FindButtonByKey(buttons, activeProgresses[i].id)
    IN  k # 0 /\ buttons[k].name = engInst[i].name

\* C30: the last page cannot be deleted: totalPages >= 1.
C30_LastPageStays ==
  settings.totalPages >= 1

\* A sequence without the n elements that follow its first `first` elements
\* (Array.prototype.splice(first, n) on a copy)
Without(seq, first, n) ==
  SubSeq(seq, 1, Min(first, Len(seq))) \o SubSeq(seq, first + n + 1, Len(seq))

ButtonNames(btns) == [k \in 1..Len(btns) |-> btns[k].name]

\* C31: a removeCurrentPage that completes on a grid of more than one page
\* removes the buttons and the page name of one and the same page: for some
\* page p of the grid, the buttons that remain are the former ones without
\* those of p, and the page names that remain are the former ones without
\* the name of p.
C31_RemovesOnePage ==
  [][lastAct' = "removePage" /\ settings.totalPages > 1 =>
       \E p \in 0..(settings.totalPages - 1) :
         /\ ButtonNames(buttons') =
              Without(ButtonNames(buttons), p * ItemsPerPage, ItemsPerPage)
         /\ settings'.pageNames = Without(settings.pageNames, p, 1)]_vars

\* A removeCurrentPage is suspended in stopAllInstances
PageOperationInProgress ==
  \E c \in Pending : c.op = "stop_instance" /\ c.caller = "page"

\* C32: whenever no page operation is in progress, the grid has
\* itemsPerPage buttons per page, one name per page, and every button's id
\* is its index.
C32_GridMatchesPages ==
  ~PageOperationInProgress =>
    /\ Len(buttons) = ItemsPerPage * settings.totalPages
    /\ Len(settings.pageNames) = settings.totalPages
    /\ \A k \in 1..Len(buttons) : buttons[k].id = k - 1

\* C33: the current page is a page of the grid: 0 <= currentPage < totalPages.
C33_CurrentPageInRange ==
  settings.currentPage >= 0 /\ settings.currentPage < settings.totalPages

\* C34: a drop point that passes the bounds check gives a column in 0..3, a
\* row in 0..(itemsPerPage/4 - 1) and a button index on the current page.
C34_DropCellOnPage ==
  lastDrop # NoDrop =>
    /\ lastDrop.col \in 0..(GridColumns - 1)
    /\ lastDrop.row \in 0..(StoreItemsPerPage \div GridColumns - 1)
    /\ lastDrop.index >= lastDrop.page * StoreItemsPerPage
    /\ lastDrop.index <= lastDrop.page * StoreItemsPerPage + StoreItemsPerPage - 1

\* C35: whenever no event is undelivered, a button that has entries in the
\* queue shows the pause state of the entry togglePauseLatest acts on.
C35_ButtonShowsLatest ==
  (chanProgress = EmptyBag /\ chanFinished = {} /\ removedIds = {}) =>
    \A k \in 1..Len(buttons) :
      ActiveForButton(activeProgresses, buttons[k].id) # {} =>
        buttons[k].isPaused =
          activeProgresses[LatestInstance(activeProgresses, buttons[k].id)].is_paused

\* C36: whenever the store is quiescent, preload_sound has been invoked for
\* the path of every button of the current page that has one.
C36_CurrentPagePreloaded ==
  Quiescent => PagePaths(buttons, settings) \subseteq preloaded

====
